---- MODULE Spec2Model ----
(***************************************************************************)
(* Idempotent mutation coordination of notion-cli.                          *)
(*                                                                         *)
(*   IdempotencyStore              src/src/idempotency/store.ts  1-268     *)
(*   executeMutationWithIdempotency  src/unnamed/part_004                  *)
(*                                                                         *)
(* Time is counted in ticks of 15 seconds: the polling deadline (15 s) is  *)
(* 1 tick, the key's time bucket (120 s) 8 ticks, the prune TTL (180 s)    *)
(* 12 ticks.                                                               *)
(*                                                                         *)
(* Specifications                                                          *)
(*   SpecStore  clients calling lookup / reserve / complete / release      *)
(*              directly, with arbitrary arguments, while time passes.     *)
(*   Spec       NumProcs processes calling executeMutationWithIdempotency  *)
(*              concurrently; each store operation is one atomic step (it  *)
(*              runs inside withLock).                                     *)
(*   SpecSeq    the same calls issued one after the other.                 *)
(*   SpecSame   concurrent calls that all carry the same request and whose *)
(*              run() succeeds.                                            *)
(*   SpecLock   the lock file protocol of withLock, one system call at a   *)
(*              time, around reserve (clock in ticks of 5 s).              *)
(***************************************************************************)
EXTENDS Integers, Sequences, FiniteSets, TLC

VARIABLES now, file, last, pc, loc, calls, hist, lockFile, lk, notion, rbr, scan

vars == <<now, file, last, pc, loc, calls, hist, lockFile, lk, notion, rbr, scan>>

-----------------------------------------------------------------------------
(* Bounds of the model *)

MaxTime == 1
NumProcs == 2
MaxCalls == 3
MaxStoreTime == 16
StoreClockStep == 4
MaxSeqTime == 13
MaxSeqCalls == 2
NumSiblings == 3
MaxNewBlocks == 3
MaxEdits == 1
MaxTreeBlocks == 4
NumLabelings == 3
MaxNth == 3

-----------------------------------------------------------------------------
(* Program constants, in ticks of 15 s *)

PRUNE_TTL_MS == 12
BUCKET_MS == 8
POLL_DEADLINE_MS == 1

Null == "null"
Undefined == "undefined"

(* JSON.stringify / JSON.parse of a response: a JSON text is a sequence    *)
(* holding the value; undefined has no JSON text (the property is dropped  *)
(* when the map is saved) and parsing the missing text throws.             *)
JsonStringify(v) == IF v = Undefined THEN << >> ELSE <<v>>
JsonParseThrows(j) == Len(j) # 1
JsonParse(j) == j[1]

PENDING_RESPONSE_JSON == JsonStringify("__notion_lite_pending")

compositeKey(idempotencyKey, commandName) == <<idempotencyKey, commandName>>

NoError == [code |-> "none", status |-> 0, message |-> "none", cli |-> FALSE,
            retryable |-> FALSE]
CliError(code, message, retryable) ==
  [code |-> code, status |-> 0, message |-> message, cli |-> TRUE, retryable |-> retryable]
RawError(code, status, message) ==
  [code |-> code, status |-> status, message |-> message, cli |-> FALSE,
   retryable |-> FALSE]

EmptyMap == [k \in {} |-> Null]

-----------------------------------------------------------------------------
(* IdempotencyStore: the persisted map `file` and the four operations.     *)
(* Each operator takes the file and the time of the call, and yields the   *)
(* file after the call with the call's result.                             *)

(* A TTL shorter than a time bucket. *)
IsExpired_ShortTtl(entry, t) == t - entry.createdAt > PRUNE_TTL_MS \div 4

IsExpired(entry, t) == t - entry.createdAt > PRUNE_TTL_MS

Prune(data, t) ==
  [k \in {x \in DOMAIN data : ~IsExpired(data[x], t)} |-> data[k]]

(* A load that forgets to prune. *)
loadDataUnlocked_NoPrune(f, t) == [data |-> f, file |-> f]

(* loadDataUnlocked: a missing file reads as the empty map; expired        *)
(* entries are deleted and, when any was, the pruned map is saved.         *)
loadDataUnlocked(f, t) ==
  LET data == Prune(f, t)
      pruned == DOMAIN data # DOMAIN f
  IN [data |-> data, file |-> IF pruned THEN data ELSE f]

Put(data, key, entry) ==
  [k \in DOMAIN data \cup {key} |-> IF k = key THEN entry ELSE data[k]]

Del(data, key) == [k \in DOMAIN data \ {key} |-> data[k]]

Result(f, kind, response, storedHash, error) ==
  [file |-> f, kind |-> kind, response |-> response,
   storedHash |-> storedHash, error |-> error]

CorruptError ==
  CliError("internal_error", "Stored idempotency response is corrupt.", FALSE)
FinalizeError ==
  CliError("internal_error", "Failed to finalize idempotency record for mutation replay.",
           FALSE)

(* A classification that looks at the state before the hash. *)
Classify_StateFirst(f, entry, inputHash) ==
  IF entry.responseJson = PENDING_RESPONSE_JSON
  THEN Result(f, "pending", Null, Null, NoError)
  ELSE IF entry.inputHash # inputHash
  THEN Result(f, "conflict", Null, entry.inputHash, NoError)
  ELSE IF JsonParseThrows(entry.responseJson)
  THEN Result(f, "throw", Null, Null, CorruptError)
  ELSE Result(f, "replay", JsonParse(entry.responseJson), Null, NoError)

(* The classification of an existing entry, shared by lookup and reserve. *)
Classify(f, entry, inputHash) ==
  IF entry.inputHash # inputHash
  THEN Result(f, "conflict", Null, entry.inputHash, NoError)
  ELSE IF entry.responseJson = PENDING_RESPONSE_JSON
  THEN Result(f, "pending", Null, Null, NoError)
  ELSE IF JsonParseThrows(entry.responseJson)
  THEN Result(f, "throw", Null, Null, CorruptError)
  ELSE Result(f, "replay", JsonParse(entry.responseJson), Null, NoError)

(* Variants of the operations with a slip in them, used to see that the   *)
(* properties below depend on the operations as written.                  *)
reserve_Overwrite(f, t, idempotencyKey, commandName, inputHash) ==
  LET ld == loadDataUnlocked(f, t)
      key == compositeKey(idempotencyKey, commandName)
  IN Result(Put(ld.data, key,
                [inputHash |-> inputHash,
                 responseJson |-> PENDING_RESPONSE_JSON,
                 createdAt |-> t]),
            "execute", Null, Null, NoError)

complete_NoHashCheck(f, t, idempotencyKey, commandName, inputHash, response) ==
  LET ld == loadDataUnlocked(f, t)
      key == compositeKey(idempotencyKey, commandName)
  IN Result(Put(ld.data, key, [inputHash |-> inputHash,
                               responseJson |-> JsonStringify(response),
                               createdAt |-> t]),
            "ok", Null, Null, NoError)

release_NoHashCheck(f, t, idempotencyKey, commandName, inputHash) ==
  LET ld == loadDataUnlocked(f, t)
      key == compositeKey(idempotencyKey, commandName)
  IN IF /\ key \in DOMAIN ld.data
        /\ ld.data[key].responseJson = PENDING_RESPONSE_JSON
     THEN Result(Del(ld.data, key), "ok", Null, Null, NoError)
     ELSE Result(ld.file, "ok", Null, Null, NoError)

(* A lookup that refreshes the timestamp of the entry it reads. *)
lookup_Touch(f, t, idempotencyKey, commandName, inputHash) ==
  LET ld == loadDataUnlocked(f, t)
      key == compositeKey(idempotencyKey, commandName)
  IN IF key \notin DOMAIN ld.data
     THEN Result(ld.file, "miss", Null, Null, NoError)
     ELSE Classify(Put(ld.data, key, [ld.data[key] EXCEPT !.createdAt = t]),
                   ld.data[key], inputHash)

lookup(f, t, idempotencyKey, commandName, inputHash) ==
  LET ld == loadDataUnlocked(f, t)
      key == compositeKey(idempotencyKey, commandName)
  IN IF key \notin DOMAIN ld.data
     THEN Result(ld.file, "miss", Null, Null, NoError)
     ELSE Classify(ld.file, ld.data[key], inputHash)

(* The callback reserve hands to withLock, after its loadDataUnlocked      *)
(* returned ld: ld.data is the map it works on, ld.file what the file      *)
(* holds; a save replaces the whole file by the map.                       *)
reserveUnlocked(ld, t, idempotencyKey, commandName, inputHash) ==
  LET key == compositeKey(idempotencyKey, commandName)
  IN IF key \notin DOMAIN ld.data
     THEN Result(Put(ld.data, key,
                     [inputHash |-> inputHash,
                      responseJson |-> PENDING_RESPONSE_JSON,
                      createdAt |-> t]),
                 "execute", Null, Null, NoError)
     ELSE Classify(ld.file, ld.data[key], inputHash)

reserve(f, t, idempotencyKey, commandName, inputHash) ==
  reserveUnlocked(loadDataUnlocked(f, t), t, idempotencyKey, commandName, inputHash)

complete(f, t, idempotencyKey, commandName, inputHash, response) ==
  LET ld == loadDataUnlocked(f, t)
      key == compositeKey(idempotencyKey, commandName)
      fresh == [inputHash |-> inputHash,
                responseJson |-> JsonStringify(response),
                createdAt |-> t]
  IN IF key \notin DOMAIN ld.data
     THEN Result(Put(ld.data, key, fresh), "ok", Null, Null, NoError)
     ELSE IF ld.data[key].inputHash # inputHash
     THEN Result(ld.file, "throw", Null, Null, FinalizeError)
     ELSE Result(Put(ld.data, key, fresh), "ok", Null, Null, NoError)

release(f, t, idempotencyKey, commandName, inputHash) ==
  LET ld == loadDataUnlocked(f, t)
      key == compositeKey(idempotencyKey, commandName)
  IN IF /\ key \in DOMAIN ld.data
        /\ ld.data[key].inputHash = inputHash
        /\ ld.data[key].responseJson = PENDING_RESPONSE_JSON
     THEN Result(Del(ld.data, key), "ok", Null, Null, NoError)
     ELSE Result(ld.file, "ok", Null, Null, NoError)

-----------------------------------------------------------------------------
(* Requests and hashing.                                                   *)

Shapes == {"s1", "s2"}
Hashes == {"h1", "h2"}
Responses == {"r1", "r2"}

(* hashObject (utils/json.js): a digest of the canonical JSON of a value.  *)
(* A JSON value is a sequence here: <<shape>> for a request shape,         *)
(* <<commandName, shape>> for {commandName, requestShape}.  A digest has   *)
(* finitely many values, so distinct inputs can share one: the key digests *)
(* of s1 and s2 collide while their request hashes differ, which is the    *)
(* situation reserve reports as conflict.                                  *)
hashObject(v) ==
  IF Len(v) = 1
  THEN CASE v[1] = "s1" -> "h1" [] OTHER -> "h2"
  ELSE "d12"

(* A key that carries the time itself instead of its bucket. *)
buildInternalIdempotencyKey_NoBucket(commandName, requestShape, t) ==
  <<commandName, t, hashObject(<<commandName, requestShape>>)>>

buildInternalIdempotencyKey(commandName, requestShape, t) ==
  <<commandName, t \div BUCKET_MS, hashObject(<<commandName, requestShape>>)>>

-----------------------------------------------------------------------------
(* Errors *)

InProgressError ==
  CliError("retryable_upstream",
           "A matching mutation is already in progress. Retry this request shortly.", TRUE)
KeyConflictError ==
  CliError("idempotency_key_conflict", "Internal idempotency key collision.", FALSE)
UncertainError ==
  CliError("retryable_upstream",
           "Mutation outcome could not be confirmed. Re-read before retrying.", TRUE)
IoError == RawError("EIO", 0, "persistence failure")

(* What run() can throw. *)
RunErrors ==
  { CliError("invalid_input", "bad input", FALSE),
    CliError("retryable_upstream", "upstream timeout", TRUE),
    RawError("none", 404, "not found"),
    RawError("none", 429, "rate limited"),
    RawError("none", 500, "server error"),
    RawError("internal_error", 0, "upstream ambiguity") }

(* A classification that forgets the error code internal_error. *)
isAmbiguousMutationError_NoInternalCode(error) ==
  \/ error.cli /\ error.code = "retryable_upstream"
  \/ error.status = 429
  \/ error.status >= 500

isAmbiguousMutationError(error) ==
  \/ error.cli /\ error.code = "retryable_upstream"
  \/ error.status = 429
  \/ error.status >= 500
  \/ error.code = "internal_error"

-----------------------------------------------------------------------------
(* executeMutationWithIdempotency, one call per process at a time.         *)
(*                                                                         *)
(* pc: idle     no call made yet                                           *)
(*     poll     at the test `Date.now() < deadline` of the inner loop      *)
(*     sleep    in `await sleep(50)`                                       *)
(*     miss     between the lookup that returned miss and the reserve      *)
(*     run      in `await args.run()`                                      *)
(*     recover  in `await args.recover()`                                  *)
(*     done     the call returned or threw (loc[p].result)                 *)

Procs == 1 .. NumProcs

NoAudit == [n |-> 0, ok |-> FALSE, recovery_attempted |-> FALSE,
            recovery_succeeded |-> FALSE, idempotency_persist_degraded |-> FALSE,
            outcome_uncertain |-> FALSE]

NoResult == [state |-> "none", value |-> Null, error |-> NoError]

NoCall == [requestShape |-> Null, requestHash |-> Null, result |-> NoResult,
           idempotencyPersistDegraded |-> FALSE, runs |-> 0]

InitLoc ==
  [requestShape |-> Null, requestHash |-> Null, idempotencyKey |-> <<>>,
   lookup |-> "none", deadline |-> 0,
   ownsReservation |-> FALSE, recoveryAttempted |-> FALSE,
   recoverySucceeded |-> FALSE, idempotencyPersistDegraded |-> FALSE,
   outcomeUncertain |-> FALSE,
   runs |-> 0, recovers |-> 0, released |-> FALSE,
   audit |-> NoAudit, result |-> NoResult]

CommandName == "pages.update"

(* The audit event of a call, as safeAppendAuditLog is handed it; a        *)
(* failing append is swallowed, so the event is counted as attempted.      *)
AuditEvent(l, ok) ==
  [n |-> l.audit.n + 1, ok |-> ok,
   recovery_attempted |-> l.recoveryAttempted,
   recovery_succeeded |-> l.recoverySucceeded,
   idempotency_persist_degraded |-> l.idempotencyPersistDegraded,
   outcome_uncertain |-> IF ok THEN FALSE ELSE l.outcomeUncertain]

(* return value: lines 121-130 (replay) and 185-199 (fresh or recovered).  *)
Returned(l, value) ==
  [l EXCEPT !.audit = AuditEvent(l, TRUE), !.deadline = 0,
            !.result = [state |-> "returned", value |-> value, error |-> NoError]]

(* The outer catch, lines 200-218: release when the caller owns the        *)
(* reservation, audit, rethrow.  A release that throws (ioFail) leaves the *)
(* catch block at once: no audit, and its error is the one thrown.         *)
Caught(p, l, error, ioFail) ==
  IF l.ownsReservation /\ ioFail
  THEN /\ file' = file
       /\ loc' = [loc EXCEPT ![p] =
            [l EXCEPT !.deadline = 0,
                      !.result = [state |-> "threw", value |-> Null, error |-> IoError]]]
       /\ pc' = [pc EXCEPT ![p] = "done"]
  ELSE /\ file' = IF l.ownsReservation
                  THEN release(file, now, l.idempotencyKey, CommandName, l.requestHash).file
                  ELSE file
       /\ loc' = [loc EXCEPT ![p] =
            [l EXCEPT !.released = l.ownsReservation, !.deadline = 0,
                      !.audit = AuditEvent(l, FALSE),
                      !.result = [state |-> "threw", value |-> Null, error |-> error]]]
       /\ pc' = [pc EXCEPT ![p] = "done"]

(* A coordinator that treats conflict like execute. *)
AfterLoop_ConflictRuns(p, l0, r) ==
  LET l == [l0 EXCEPT !.lookup = r.kind]
  IN CASE r.kind = "throw" ->
            /\ file' = r.file
            /\ loc' = [loc EXCEPT ![p] =
                 [l EXCEPT !.audit = AuditEvent(l, FALSE), !.deadline = 0,
                           !.result = [state |-> "threw", value |-> Null, error |-> r.error]]]
            /\ pc' = [pc EXCEPT ![p] = "done"]
       [] r.kind = "replay" ->
            /\ file' = r.file
            /\ loc' = [loc EXCEPT ![p] = Returned(l, r.response)]
            /\ pc' = [pc EXCEPT ![p] = "done"]
       [] OTHER ->
            /\ file' = r.file
            /\ loc' = [loc EXCEPT ![p] = [l EXCEPT !.ownsReservation = TRUE]]
            /\ pc' = [pc EXCEPT ![p] = "run"]

(* Lines 110-137, reached when the `while (lookup.kind === "pending")` loop *)
(* is left with the reserve or lookup result r (file f after it).          *)
AfterLoop(p, l0, r) ==
  LET l == [l0 EXCEPT !.lookup = r.kind]
  IN CASE r.kind = "throw" ->
            /\ file' = r.file
            /\ loc' = [loc EXCEPT ![p] =
                 [l EXCEPT !.audit = AuditEvent(l, FALSE), !.deadline = 0,
                           !.result = [state |-> "threw", value |-> Null, error |-> r.error]]]
            /\ pc' = [pc EXCEPT ![p] = "done"]
       [] r.kind = "conflict" ->
            /\ file' = r.file
            /\ loc' = [loc EXCEPT ![p] =
                 [l EXCEPT !.audit = AuditEvent(l, FALSE), !.deadline = 0,
                           !.result = [state |-> "threw", value |-> Null,
                                       error |-> KeyConflictError]]]
            /\ pc' = [pc EXCEPT ![p] = "done"]
       [] r.kind = "replay" ->
            /\ file' = r.file
            /\ loc' = [loc EXCEPT ![p] = Returned(l, r.response)]
            /\ pc' = [pc EXCEPT ![p] = "done"]
       [] OTHER ->
            /\ file' = r.file
            /\ loc' = [loc EXCEPT ![p] = [l EXCEPT !.ownsReservation = TRUE]]
            /\ pc' = [pc EXCEPT ![p] = "run"]

(* Lines 64-77: hash, key, first reserve; a pending result enters the loop *)
(* and sets the deadline.                                                  *)
StartCall(p, shape) ==
  /\ pc[p] \in {"idle", "done"}
  /\ calls' = calls + 1
  /\ LET requestHash == hashObject(<<shape>>)
         idempotencyKey == buildInternalIdempotencyKey(CommandName, shape, now)
         l == [InitLoc EXCEPT !.requestShape = shape, !.requestHash = requestHash,
                              !.idempotencyKey = idempotencyKey]
         r == reserve(file, now, idempotencyKey, CommandName, requestHash)
     IN IF r.kind = "pending"
        THEN /\ file' = r.file
             /\ loc' = [loc EXCEPT ![p] =
                  [l EXCEPT !.lookup = "pending", !.deadline = now + POLL_DEADLINE_MS]]
             /\ pc' = [pc EXCEPT ![p] = "poll"]
        ELSE AfterLoop(p, l, r)
  /\ UNCHANGED <<notion, rbr, scan, now, last, lockFile, lk>>

(* A call made while other calls may be in progress. *)
Start(p, shape) ==
  /\ calls < MaxCalls
  /\ StartCall(p, shape)
  /\ UNCHANGED hist

(* A call made when no other call is in progress; hist keeps which process *)
(* made the latest call and when (at), and when the call before it was     *)
(* made (prevAt) and how it ended (prev).                                  *)
CallSummary(l) ==
  [requestShape |-> l.requestShape, requestHash |-> l.requestHash,
   result |-> l.result, idempotencyPersistDegraded |-> l.idempotencyPersistDegraded,
   runs |-> l.runs]

SeqStart(p, shape) ==
  /\ calls < MaxSeqCalls
  /\ \A q \in Procs : pc[q] \in {"idle", "done"}
  /\ StartCall(p, shape)
  /\ hist' = [cur |-> p, at |-> now, prevAt |-> hist.at,
              prev |-> IF hist.cur = 0 THEN NoCall ELSE CallSummary(loc[hist.cur])]

(* Line 80 with the deadline not reached: go to sleep. *)
PollSleep(p) ==
  /\ pc[p] = "poll"
  /\ now < loc[p].deadline
  /\ pc' = [pc EXCEPT ![p] = "sleep"]
  /\ UNCHANGED <<notion, rbr, scan, now, file, last, loc, calls, hist, lockFile, lk>>

(* A coordinator that, at the deadline, takes the reservation over and     *)
(* executes although the entry is still pending.                           *)
PollTimeout_Reexecute(p) ==
  /\ pc[p] = "poll"
  /\ ~(now < loc[p].deadline)
  /\ LET l == loc[p]
         r == reserve(file, now, l.idempotencyKey, CommandName, l.requestHash)
     IN IF r.kind = "pending"
        THEN /\ file' = r.file
             /\ loc' = [loc EXCEPT ![p] =
                  [l EXCEPT !.lookup = "pending", !.ownsReservation = TRUE]]
             /\ pc' = [pc EXCEPT ![p] = "run"]
        ELSE AfterLoop(p, l, r)
  /\ UNCHANGED <<notion, rbr, scan, now, last, calls, hist, lockFile, lk>>

(* Line 80 with the deadline reached, lines 96-108: reserve once more;     *)
(* still pending throws the in-progress error.                             *)
PollTimeout(p) ==
  /\ pc[p] = "poll"
  /\ ~(now < loc[p].deadline)
  /\ LET l == loc[p]
         r == reserve(file, now, l.idempotencyKey, CommandName, l.requestHash)
     IN IF r.kind = "pending"
        THEN /\ file' = r.file
             /\ loc' = [loc EXCEPT ![p] =
                  [l EXCEPT !.lookup = "pending", !.deadline = 0,
                            !.audit = AuditEvent(l, FALSE),
                            !.result = [state |-> "threw", value |-> Null,
                                        error |-> InProgressError]]]
             /\ pc' = [pc EXCEPT ![p] = "done"]
        ELSE AfterLoop(p, l, r)
  /\ UNCHANGED <<notion, rbr, scan, now, last, calls, hist, lockFile, lk>>

(* Lines 82-94: the lookup after the sleep. *)
PollLookup(p) ==
  /\ pc[p] = "sleep"
  /\ LET l == loc[p]
         current == lookup(file, now, l.idempotencyKey, CommandName, l.requestHash)
     IN CASE current.kind = "pending" ->
               /\ file' = current.file
               /\ pc' = [pc EXCEPT ![p] = "poll"]
               /\ loc' = loc
          [] current.kind = "miss" ->
               /\ file' = current.file
               /\ pc' = [pc EXCEPT ![p] = "miss"]
               /\ loc' = loc
          [] OTHER -> AfterLoop(p, l, current)
  /\ UNCHANGED <<notion, rbr, scan, now, last, calls, hist, lockFile, lk>>

(* Lines 86-89: the lookup found no entry, so reserve again; whatever the  *)
(* reserve returns, `resolved` is set and both loops are left.  Other      *)
(* processes reach the store between the lookup and this reserve.          *)
PollReserve(p) ==
  /\ pc[p] = "miss"
  /\ AfterLoop(p, loc[p], reserve(file, now, loc[p].idempotencyKey,
                                  CommandName, loc[p].requestHash))
  /\ UNCHANGED <<notion, rbr, scan, now, last, calls, hist, lockFile, lk>>

(* A coordinator that lets a failure of complete reach the caller. *)
Completed_Surface(p, l, response, ioFail) ==
  LET c == complete(file, now, l.idempotencyKey, CommandName, l.requestHash, response)
  IN IF ioFail \/ c.kind = "throw"
     THEN Caught(p, l, IF ioFail THEN IoError ELSE c.error, FALSE)
     ELSE /\ file' = c.file
          /\ loc' = [loc EXCEPT ![p] = Returned(l, response)]
          /\ pc' = [pc EXCEPT ![p] = "done"]

(* A coordinator that swallows a failure of complete without recording it. *)
Completed_NoDegradedFlag(p, l, response, ioFail) ==
  LET c == complete(file, now, l.idempotencyKey, CommandName, l.requestHash, response)
  IN /\ file' = IF ioFail THEN file ELSE c.file
     /\ loc' = [loc EXCEPT ![p] = Returned(l, response)]
     /\ pc' = [pc EXCEPT ![p] = "done"]

(* Lines 177-199: complete (its failure is swallowed), audit, return.      *)
Completed(p, l, response, ioFail) ==
  LET c == complete(file, now, l.idempotencyKey, CommandName, l.requestHash, response)
      failed == ioFail \/ c.kind = "throw"
      l1 == [l EXCEPT !.idempotencyPersistDegraded = failed]
  IN /\ file' = IF ioFail THEN file ELSE c.file
     /\ loc' = [loc EXCEPT ![p] = Returned(l1, response)]
     /\ pc' = [pc EXCEPT ![p] = "done"]

(* Line 137, run() resolves. *)
RunOk(p, response, ioFail) ==
  /\ pc[p] = "run"
  /\ Completed(p, [loc[p] EXCEPT !.runs = @ + 1], response, ioFail)
  /\ UNCHANGED <<notion, rbr, scan, now, last, calls, hist, lockFile, lk>>

(* Lines 138-175, run() rejects with error; hasRecover says whether the    *)
(* call was given a recover callback.                                      *)
RunFail(p, error, hasRecover, ioFail) ==
  /\ pc[p] = "run"
  /\ LET l == [loc[p] EXCEPT !.runs = @ + 1]
     IN IF ~isAmbiguousMutationError(error)
        THEN Caught(p, l, error, ioFail)
        ELSE IF hasRecover
        THEN /\ loc' = [loc EXCEPT ![p] = [l EXCEPT !.recoveryAttempted = TRUE]]
             /\ pc' = [pc EXCEPT ![p] = "recover"]
             /\ file' = file
        ELSE Caught(p, [l EXCEPT !.recoveryAttempted = TRUE, !.outcomeUncertain = TRUE],
                    UncertainError, ioFail)
  /\ UNCHANGED <<notion, rbr, scan, now, last, calls, hist, lockFile, lk>>

(* Lines 147-150, recover() resolves with a value. *)
RecoverOk(p, response, ioFail) ==
  /\ pc[p] = "recover"
  /\ Completed(p, [loc[p] EXCEPT !.recovers = @ + 1, !.recoverySucceeded = TRUE],
               response, ioFail)
  /\ UNCHANGED <<notion, rbr, scan, now, last, calls, hist, lockFile, lk>>

(* Lines 151-166, recover() resolves with null or rejects. *)
RecoverNone(p, ioFail) ==
  /\ pc[p] = "recover"
  /\ Caught(p, [loc[p] EXCEPT !.recovers = @ + 1, !.outcomeUncertain = TRUE],
            UncertainError, ioFail)
  /\ UNCHANGED <<notion, rbr, scan, now, last, calls, hist, lockFile, lk>>

(* Date.now() advances. *)
Tick(max, step) ==
  /\ now + step <= max
  /\ now' = now + step
  /\ UNCHANGED <<notion, rbr, scan, file, last, pc, loc, calls, hist, lockFile, lk>>

(* The lock file (absent: NoLock) and where each process is in withLock.   *)
NoLock == [owner |-> 0, mtime |-> 0]

(* The temporary file of a save: none, partly written, or complete. *)
NoTemp == [state |-> "none", data |-> EmptyMap]

InitLk == [pc |-> "idle", deadline |-> 0, data |-> EmptyMap, kind |-> "none",
           error |-> NoError, temp |-> NoTemp]

NoLast == [op |-> "none", key |-> Null, inputHash |-> Null, kind |-> "none",
           response |-> Null, storedHash |-> Null, error |-> NoError,
           was |-> "absent", wasExpired |-> FALSE]


(* The remote service as replaceBlockRange sees it: the children of the    *)
(* parent block of the range, in order, each with its id and its           *)
(* last_edited_time (Null when the service sends none); the mutation calls *)
(* received so far, each with its target and whether it succeeded; the     *)
(* ids taken out by other clients.                                         *)
InitialChildren ==
  [i \in 1..NumSiblings |->
     [id |-> "b" \o ToString(i),
      last_edited_time |-> IF i = 2 THEN Null ELSE "t0"]]

InitNotion ==
  [children |-> InitialChildren, issued |-> <<>>, edits |-> 0, created |-> 0,
   trashed |-> {}]

NoPosition == [type |-> "none", id |-> Null]

NoRangeResult ==
  [state |-> "none", error |-> NoError, stage |-> "none", dry_run |-> FALSE,
   has_deleted_ids |-> FALSE, deleted_ids |-> <<>>,
   inserted_count |-> 0, deleted_count |-> 0]

(* replaceBlockRange not called yet. *)
InitRbr ==
  [pc |-> "idle", siblings |-> <<>>, blocksToDelete |-> <<>>,
   insertPosition |-> NoPosition, currentPosition |-> NoPosition,
   chunks |-> <<>>, insert_count |-> 0, insertedIds |-> <<>>, di |-> 1,
   result |-> NoRangeResult]

(* The block tree under the scope of a scan, as the remote service holds   *)
(* it.  Block i (1..MaxTreeBlocks) is a child of parent[i], another block  *)
(* j < i or the scope itself (0); the children of a block are listed in    *)
(* the order of their numbers.  The labeling fixes type and text of every  *)
(* block; noId holds the blocks the service lists without a string id.     *)
TreeShapes ==
  {parent \in [1..MaxTreeBlocks -> 0..(MaxTreeBlocks - 1)] :
     \A i \in 1..MaxTreeBlocks : parent[i] < i}

Trees == [parent : TreeShapes, labeling : 1..NumLabelings, noId : {{}}]

NoBlock ==
  [id |-> Null, parent_id |-> Null, type |-> Null, text |-> "",
   has_children |-> FALSE, last_edited_time |-> Null,
   sibling_index |-> 0, order_index |-> 0]

NoSelector ==
  [where |-> [type |-> Undefined, text_contains |-> Undefined, parent_id |-> Undefined],
   from |-> "start", nth |-> 0]

NoScanOut ==
  [kind |-> "none", error |-> NoError, blocks |-> <<>>, matches |-> <<>>,
   match_count |-> 0, ambiguous |-> FALSE, selected |-> NoBlock,
   start |-> NoBlock, end |-> NoBlock, parent_id |-> Null,
   delete_ids |-> <<>>, insert_position |-> NoPosition, dry_run |-> FALSE,
   issued |-> <<>>, returned |-> <<>>, returned_blocks |-> 0, truncated |-> FALSE]

(* No scan made yet.  op is the latest operation, with the tree it found   *)
(* and its arguments, and out what it returned or threw.                   *)
InitScan ==
  [tree |-> [parent |-> [i \in 1..MaxTreeBlocks |-> 0], labeling |-> 1, noId |-> {}],
   op |-> "none", maxBlocks |-> 0, depth |-> 0, selector |-> NoSelector,
   endSelector |-> NoSelector, inclusiveStart |-> TRUE, inclusiveEnd |-> TRUE,
   dryRun |-> FALSE, out |-> NoScanOut]

Init ==
  /\ now = 0
  /\ file = EmptyMap
  /\ last = NoLast
  /\ pc = [p \in Procs |-> "idle"]
  /\ loc = [p \in Procs |-> InitLoc]
  /\ calls = 0
  /\ hist = [cur |-> 0, at |-> 0, prevAt |-> 0, prev |-> NoCall]
  /\ lockFile = NoLock
  /\ lk = [p \in Procs |-> InitLk]
  /\ notion = InitNotion
  /\ rbr = InitRbr
  /\ scan = InitScan

Next ==
  \/ Tick(MaxTime, 1)
  \/ \E p \in Procs, shape \in Shapes : Start(p, shape)
  \/ \E p \in Procs : PollSleep(p)
  \/ \E p \in Procs : PollTimeout(p)
  \/ \E p \in Procs : PollLookup(p)
  \/ \E p \in Procs : PollReserve(p)
  \/ \E p \in Procs, response \in Responses, ioFail \in BOOLEAN : RunOk(p, response, ioFail)
  \/ \E p \in Procs, error \in RunErrors, hasRecover \in BOOLEAN, ioFail \in BOOLEAN :
        RunFail(p, error, hasRecover, ioFail)
  \/ \E p \in Procs, response \in Responses, ioFail \in BOOLEAN : RecoverOk(p, response, ioFail)
  \/ \E p \in Procs, ioFail \in BOOLEAN : RecoverNone(p, ioFail)

Spec == Init /\ [][Next]_vars

(* The calls issued one after the other, by one process: a call keeps no   *)
(* state in the process, only in the file.                                 *)
SeqProc == CHOOSE p \in Procs : TRUE

NextSeq ==
  \/ Tick(MaxSeqTime, 1)
  \/ \E shape \in Shapes : SeqStart(SeqProc, shape)
  \/ PollSleep(SeqProc)
  \/ PollTimeout(SeqProc)
  \/ PollLookup(SeqProc)
  \/ PollReserve(SeqProc)
  \/ \E response \in Responses, ioFail \in BOOLEAN : RunOk(SeqProc, response, ioFail)
  \/ \E error \in RunErrors, hasRecover \in BOOLEAN, ioFail \in BOOLEAN :
        RunFail(SeqProc, error, hasRecover, ioFail)
  \/ \E response \in Responses, ioFail \in BOOLEAN : RecoverOk(SeqProc, response, ioFail)
  \/ \E ioFail \in BOOLEAN : RecoverNone(SeqProc, ioFail)

SpecSeq == Init /\ [][NextSeq]_vars

(* Concurrent calls that all carry the same request and whose run()        *)
(* succeeds (tests/idempotency-concurrency.test.ts).                       *)
NextSame ==
  \/ Tick(MaxTime, 1)
  \/ \E p \in Procs : Start(p, "s1")
  \/ \E p \in Procs : PollSleep(p)
  \/ \E p \in Procs : PollTimeout(p)
  \/ \E p \in Procs : PollLookup(p)
  \/ \E p \in Procs, response \in Responses, ioFail \in BOOLEAN : RunOk(p, response, ioFail)

SpecSame == Init /\ [][NextSame]_vars

(* Concurrent calls that all carry the same request, with every outcome of *)
(* run() and recover() (tests/mutation.test.ts).                           *)
NextRetry ==
  \/ Tick(MaxTime, 1)
  \/ \E p \in Procs : Start(p, "s1")
  \/ \E p \in Procs : PollSleep(p)
  \/ \E p \in Procs : PollTimeout(p)
  \/ \E p \in Procs : PollLookup(p)
  \/ \E p \in Procs : PollReserve(p)
  \/ \E p \in Procs, response \in Responses, ioFail \in BOOLEAN : RunOk(p, response, ioFail)
  \/ \E p \in Procs, error \in RunErrors, hasRecover \in BOOLEAN, ioFail \in BOOLEAN :
        RunFail(p, error, hasRecover, ioFail)
  \/ \E p \in Procs, response \in Responses, ioFail \in BOOLEAN :
        RecoverOk(p, response, ioFail)
  \/ \E p \in Procs, ioFail \in BOOLEAN : RecoverNone(p, ioFail)

SpecRetry == Init /\ [][NextRetry]_vars

-----------------------------------------------------------------------------
(* SpecStore: clients call the four store operations directly.             *)
(* `last` is the latest call: its arguments, what it returned or threw,    *)
(* and what the file held for its key when it was made (was, wasExpired).  *)
(* The clock is read every StoreClockStep ticks.                           *)

StoreKeys == {"k1", "k2"}

(* What the file holds for a composite key. *)
EntryState(f, key) ==
  IF key \notin DOMAIN f THEN "absent"
  ELSE IF f[key].responseJson = PENDING_RESPONSE_JSON THEN "pending"
  ELSE "terminal"

Called(op, k, h, r) ==
  /\ file' = r.file
  /\ last' = [op |-> op, key |-> k, inputHash |-> h, kind |-> r.kind,
              response |-> r.response, storedHash |-> r.storedHash, error |-> r.error,
              was |-> EntryState(file, compositeKey(k, CommandName)),
              wasExpired |-> /\ compositeKey(k, CommandName) \in DOMAIN file
                             /\ IsExpired(file[compositeKey(k, CommandName)], now)]
  /\ UNCHANGED <<notion, rbr, scan, now, pc, loc, calls, hist, lockFile, lk>>

StoreLookup(k, h) == Called("lookup", k, h, lookup(file, now, k, CommandName, h))

StoreReserve(k, h) == Called("reserve", k, h, reserve(file, now, k, CommandName, h))

StoreComplete(k, h, response) ==
  Called("complete", k, h, complete(file, now, k, CommandName, h, response))

StoreRelease(k, h) == Called("release", k, h, release(file, now, k, CommandName, h))

NextStore ==
  \/ Tick(MaxStoreTime, StoreClockStep)
  \/ \E k \in StoreKeys, h \in Hashes : StoreLookup(k, h)
  \/ \E k \in StoreKeys, h \in Hashes : StoreReserve(k, h)
  \/ \E k \in StoreKeys, h \in Hashes, response \in Responses : StoreComplete(k, h, response)
  \/ \E k \in StoreKeys, h \in Hashes : StoreRelease(k, h)

SpecStore == Init /\ [][NextStore]_vars

-----------------------------------------------------------------------------
(* SpecLock: every process calls reserve once, for the same key, command   *)
(* and hash, and withLock is followed one system call at a time.  Here the *)
(* clock counts ticks of 5 s, so that the staleness threshold (30 s) and   *)
(* the wait budget (35 s) are whole numbers of ticks; the store reads the  *)
(* same clock in its own ticks of 15 s.                                    *)
(*                                                                         *)
(* lk[p].pc: idle    reserve not called yet                                *)
(*           try     at the test of the acquireLock loop                   *)
(*           stat    openSync failed with EEXIST, before statSync          *)
(*           unlink  statSync showed a stale lock, before unlinkSync       *)
(*           load    lock acquired, before loadDataUnlocked                *)
(*           store   data loaded, before the rest of the callback          *)
(*           unlock  callback done, before releaseLock                     *)
(*           done    reserve returned lk[p].kind (busy: acquireLock threw) *)

MaxLockTime == 8

LOCK_STALE_MS == 6
LOCK_WAIT_TIMEOUT_MS == 7

LockKey == "k1"
LockHash == "h1"

StoreTime(t) == t \div 3

LockStep(p, to) == lk' = [lk EXCEPT ![p].pc = to]

(* acquireLock, line 171. *)
LockBegin(p) ==
  /\ lk[p].pc = "idle"
  /\ lk' = [lk EXCEPT ![p].pc = "try", ![p].deadline = now + LOCK_WAIT_TIMEOUT_MS]
  /\ UNCHANGED <<notion, rbr, scan, now, file, last, pc, loc, calls, hist, lockFile>>

(* Lines 191-193: the error acquireLock throws when the loop ends. *)
BusyError == CliError("retryable_upstream", "Idempotency store is busy. Retry shortly.", TRUE)

(* LockTry without the loop test of line 173. *)
LockTry_NeverGivesUp(p) ==
  /\ lk[p].pc = "try"
  /\ IF lockFile = NoLock
     THEN /\ lockFile' = [owner |-> p, mtime |-> now]
          /\ LockStep(p, "load")
     ELSE /\ lockFile' = lockFile
          /\ LockStep(p, "stat")
  /\ UNCHANGED <<notion, rbr, scan, now, file, last, pc, loc, calls, hist>>

(* Lines 173-185 and 191-193: the loop test, then openSync(lockPath,       *)
(* "wx"), which creates the lock file only if there is none; the busy      *)
(* error once the loop test fails.                                         *)
LockTry(p) ==
  /\ lk[p].pc = "try"
  /\ IF ~(now < lk[p].deadline)
     THEN /\ lk' = [lk EXCEPT ![p].pc = "done", ![p].kind = "busy",
                              ![p].error = BusyError]
          /\ lockFile' = lockFile
     ELSE IF lockFile = NoLock
     THEN /\ lockFile' = [owner |-> p, mtime |-> now]
          /\ LockStep(p, "load")
     ELSE /\ lockFile' = lockFile
          /\ LockStep(p, "stat")
  /\ UNCHANGED <<notion, rbr, scan, now, file, last, pc, loc, calls, hist>>

(* tryClearStaleLock, lines 211-213: statSync and the age test; a lock     *)
(* file gone in the meantime makes statSync throw, which is swallowed.     *)
(* Line 187, the sleep, follows when the lock is not stale.                *)
LockStat(p) ==
  /\ lk[p].pc = "stat"
  /\ IF lockFile # NoLock /\ now - lockFile.mtime > LOCK_STALE_MS
     THEN LockStep(p, "unlink")
     ELSE LockStep(p, "try")
  /\ UNCHANGED <<notion, rbr, scan, now, file, last, pc, loc, calls, hist, lockFile>>

(* Line 214: unlinkSync removes the file at lockPath, whichever process    *)
(* created it; then the sleep of line 187.                                 *)
LockUnlink(p) ==
  /\ lk[p].pc = "unlink"
  /\ lockFile' = NoLock
  /\ LockStep(p, "try")
  /\ UNCHANGED <<notion, rbr, scan, now, file, last, pc, loc, calls, hist>>

(* reserve, line 88: loadDataUnlocked. *)
CritLoad(p) ==
  /\ lk[p].pc = "load"
  /\ LET ld == loadDataUnlocked(file, StoreTime(now))
     IN /\ file' = ld.file
        /\ lk' = [lk EXCEPT ![p].pc = "store", ![p].data = ld.data]
  /\ UNCHANGED <<notion, rbr, scan, now, last, pc, loc, calls, hist, lockFile>>

(* reserve, lines 89-115, on the map loaded before. *)
CritStore(p) ==
  /\ lk[p].pc = "store"
  /\ LET r == reserveUnlocked([data |-> lk[p].data, file |-> file], StoreTime(now),
                              LockKey, CommandName, LockHash)
     IN /\ file' = r.file
        /\ lk' = [lk EXCEPT ![p].pc = "unlock", ![p].kind = r.kind]
  /\ UNCHANGED <<notion, rbr, scan, now, last, pc, loc, calls, hist, lockFile>>

(* releaseLock, lines 196-207: close, then unlinkSync of lockPath. *)
releaseLock(p) ==
  /\ lk[p].pc = "unlock"
  /\ lockFile' = NoLock
  /\ LockStep(p, "done")
  /\ UNCHANGED <<notion, rbr, scan, now, file, last, pc, loc, calls, hist>>

NextLock ==
  \/ Tick(MaxLockTime, 1)
  \/ \E p \in Procs : LockBegin(p)
  \/ \E p \in Procs : LockTry(p)
  \/ \E p \in Procs : LockStat(p)
  \/ \E p \in Procs : LockUnlink(p)
  \/ \E p \in Procs : CritLoad(p)
  \/ \E p \in Procs : CritStore(p)
  \/ \E p \in Procs : releaseLock(p)

SpecLock == Init /\ [][NextLock]_vars

(* The same protocol for operations whose whole wait budget lies within    *)
(* the modelled time, with the scheduling the code relies on: the clock    *)
(* advances, and a process inside the loop of acquireLock (a synchronous   *)
(* loop of lines 173-189) keeps taking its steps.  A process inside the    *)
(* function passed to withLock may stall for ever.                         *)
LockBeginInTime(p) ==
  /\ now + LOCK_WAIT_TIMEOUT_MS <= MaxLockTime
  /\ LockBegin(p)

NextLockFair ==
  \/ Tick(MaxLockTime, 1)
  \/ \E p \in Procs : LockBeginInTime(p)
  \/ \E p \in Procs : LockTry(p)
  \/ \E p \in Procs : LockStat(p)
  \/ \E p \in Procs : LockUnlink(p)
  \/ \E p \in Procs : CritLoad(p)
  \/ \E p \in Procs : CritStore(p)
  \/ \E p \in Procs : releaseLock(p)

SpecLockFair ==
  /\ Init
  /\ [][NextLockFair]_vars
  /\ WF_vars(Tick(MaxLockTime, 1))
  /\ \A p \in Procs : WF_vars(LockTry(p) \/ LockStat(p) \/ LockUnlink(p))

(* Lines 175-184 with a failing write: openSync created the lock file,    *)
(* writeFileSync on the new descriptor throws (a full disk), and the catch *)
(* turns every error other than EEXIST into internal_error; the descriptor *)
(* is not closed and the file is not unlinked.                             *)
AcquireError ==
  CliError("internal_error", "Failed to acquire idempotency store lock.", FALSE)

LockWriteFail(p) ==
  /\ lk[p].pc = "try"
  /\ now < lk[p].deadline
  /\ lockFile = NoLock
  /\ lockFile' = [owner |-> p, mtime |-> now]
  /\ lk' = [lk EXCEPT ![p].pc = "done", ![p].kind = "throw", ![p].error = AcquireError]
  /\ UNCHANGED <<notion, rbr, scan, now, file, last, pc, loc, calls, hist>>

NextLockIo ==
  \/ NextLock
  \/ \E p \in Procs : LockWriteFail(p)

SpecLockIo == Init /\ [][NextLockIo]_vars

(* SpecSave: the same protocol with saveDataUnlocked (lines 257-261) one   *)
(* system call at a time, and processes that die at any point of a store   *)
(* operation.  As in SpecLockFair the operations are those whose whole    *)
(* wait budget lies within the modelled time.                              *)
(*                                                                         *)
(* lk[p].pc as in SpecLock, and                                            *)
(*           write    writeFileSync(tempPath, ...) has started             *)
(*           rename   the temporary file is written, before renameSync     *)
(*           crashed  the process died                                     *)
(* lk[p].temp is the temporary file of p, whose name no other process      *)
(* uses (pid, time and a random number).                                   *)

(* What a file holds that was written in part: a text JSON.parse rejects.  *)
(* It is kept as a map with one entry under a key no request has.          *)
TornFile ==
  (<<"torn", "torn">> :> [inputHash |-> "torn", responseJson |-> << >>, createdAt |-> 0])

IsTorn(f) == <<"torn", "torn">> \in DOMAIN f

(* A save that writes the store file in place. *)
SaveOpen_InPlace(p) ==
  /\ lk[p].pc = "store"
  /\ LET r == reserveUnlocked([data |-> lk[p].data, file |-> file], StoreTime(now),
                              LockKey, CommandName, LockHash)
     IN IF r.kind = "execute"
        THEN /\ lk' = [lk EXCEPT ![p].pc = "write", ![p].kind = r.kind,
                                 ![p].temp = [state |-> "partial", data |-> r.file]]
             /\ file' = TornFile
        ELSE /\ lk' = [lk EXCEPT ![p].pc = "unlock", ![p].kind = r.kind]
             /\ file' = file
  /\ UNCHANGED <<notion, rbr, scan, now, last, pc, loc, calls, hist, lockFile>>

(* reserve, lines 89-115, on the map loaded before; where it saves (line   *)
(* 97), writeFileSync creates the temporary file and starts to write.      *)
SaveOpen(p) ==
  /\ lk[p].pc = "store"
  /\ LET r == reserveUnlocked([data |-> lk[p].data, file |-> file], StoreTime(now),
                              LockKey, CommandName, LockHash)
     IN IF r.kind = "execute"
        THEN /\ lk' = [lk EXCEPT ![p].pc = "write", ![p].kind = r.kind,
                                 ![p].temp = [state |-> "partial", data |-> r.file]]
             /\ file' = file
        ELSE /\ lk' = [lk EXCEPT ![p].pc = "unlock", ![p].kind = r.kind]
             /\ file' = file
  /\ UNCHANGED <<notion, rbr, scan, now, last, pc, loc, calls, hist, lockFile>>

(* Line 259: writeFileSync returns, the whole map is in the temporary file. *)
SaveFlush(p) ==
  /\ lk[p].pc = "write"
  /\ lk' = [lk EXCEPT ![p].pc = "rename", ![p].temp.state = "complete"]
  /\ UNCHANGED <<notion, rbr, scan, now, file, last, pc, loc, calls, hist, lockFile>>

(* Line 260: renameSync puts the temporary file in the place of the store  *)
(* file in one step.                                                       *)
SaveRename(p) ==
  /\ lk[p].pc = "rename"
  /\ file' = lk[p].temp.data
  /\ lk' = [lk EXCEPT ![p].pc = "unlock", ![p].temp = NoTemp]
  /\ UNCHANGED <<notion, rbr, scan, now, last, pc, loc, calls, hist, lockFile>>

(* The process dies inside the store operation; its lock file and its      *)
(* temporary file stay as they are.                                        *)
SaveCrash(p) ==
  /\ lk[p].pc \in {"load", "store", "write", "rename", "unlock"}
  /\ LockStep(p, "crashed")
  /\ UNCHANGED <<notion, rbr, scan, now, file, last, pc, loc, calls, hist, lockFile>>

NextSave ==
  \/ Tick(MaxLockTime, 1)
  \/ \E p \in Procs : LockBeginInTime(p)
  \/ \E p \in Procs : LockTry(p)
  \/ \E p \in Procs : LockStat(p)
  \/ \E p \in Procs : LockUnlink(p)
  \/ \E p \in Procs : CritLoad(p)
  \/ \E p \in Procs : SaveOpen(p)
  \/ \E p \in Procs : SaveFlush(p)
  \/ \E p \in Procs : SaveRename(p)
  \/ \E p \in Procs : releaseLock(p)
  \/ \E p \in Procs : SaveCrash(p)

SpecSave == Init /\ [][NextSave]_vars

(* The same protocol with processes that reserve the same key for         *)
(* different requests: process 1 presents the hash h1, the others h2.      *)
HashOf(p) == IF p = 1 THEN "h1" ELSE "h2"

(* reserve, lines 89-115, on the map loaded before, with the hash of the   *)
(* caller's request.                                                       *)
CritStoreOwn(p) ==
  /\ lk[p].pc = "store"
  /\ LET r == reserveUnlocked([data |-> lk[p].data, file |-> file], StoreTime(now),
                              LockKey, CommandName, HashOf(p))
     IN /\ file' = r.file
        /\ lk' = [lk EXCEPT ![p].pc = "unlock", ![p].kind = r.kind]
  /\ UNCHANGED <<notion, rbr, scan, now, last, pc, loc, calls, hist, lockFile>>

NextLockOwn ==
  \/ Tick(MaxLockTime, 1)
  \/ \E p \in Procs : LockBegin(p)
  \/ \E p \in Procs : LockTry(p)
  \/ \E p \in Procs : LockStat(p)
  \/ \E p \in Procs : LockUnlink(p)
  \/ \E p \in Procs : CritLoad(p)
  \/ \E p \in Procs : CritStoreOwn(p)
  \/ \E p \in Procs : releaseLock(p)

SpecLockOwn == Init /\ [][NextLockOwn]_vars

-----------------------------------------------------------------------------
(* SpecCrash: a process takes the lock and crashes inside withLock, so its *)
(* lock file stays; other processes call reserve after the crash.  Here    *)
(* the clock counts seconds.  A live process takes no measurable time for  *)
(* the function it passes to withLock, and a waiting process sleeps 30 to  *)
(* 50 ms between two attempts (line 187): the clock advances only when     *)
(* every live process sleeps or is outside withLock, and every sleeper     *)
(* makes its next attempt within the second.                               *)
(*                                                                         *)
(* lk[p].pc as in SpecLock, and                                            *)
(*           sleep    in sleepMs after an attempt that found a fresh lock  *)
(*           crashed  the process died while it held the lock              *)

MaxCrashTime == 37

(* The thresholds in seconds (a tick of SpecLock is 5 s). *)
StaleSeconds == 5 * LOCK_STALE_MS
WaitSeconds == 5 * LOCK_WAIT_TIMEOUT_MS

SomeCrashed == \E q \in Procs : lk[q].pc = "crashed"

(* acquireLock with a wait budget no longer than the staleness threshold. *)
CrashBegin_ShortBudget(p) ==
  /\ lk[p].pc = "idle"
  /\ now + WaitSeconds <= MaxCrashTime
  /\ SomeCrashed \/ \A q \in Procs : lk[q].pc = "idle"
  /\ lk' = [lk EXCEPT ![p].pc = "try", ![p].deadline = now + StaleSeconds]
  /\ UNCHANGED <<notion, rbr, scan, now, file, last, pc, loc, calls, hist, lockFile>>

(* acquireLock, line 171, called by the first process of all or by a       *)
(* process that starts after the crash.                                    *)
CrashBegin(p) ==
  /\ lk[p].pc = "idle"
  /\ now + WaitSeconds <= MaxCrashTime
  /\ SomeCrashed \/ \A q \in Procs : lk[q].pc = "idle"
  /\ lk' = [lk EXCEPT ![p].pc = "try", ![p].deadline = now + WaitSeconds]
  /\ UNCHANGED <<notion, rbr, scan, now, file, last, pc, loc, calls, hist, lockFile>>

(* tryClearStaleLock, lines 211-213, then the sleep of line 187 when the   *)
(* lock is not stale.                                                      *)
CrashStat(p) ==
  /\ lk[p].pc = "stat"
  /\ IF lockFile # NoLock /\ now - lockFile.mtime > StaleSeconds
     THEN LockStep(p, "unlink")
     ELSE LockStep(p, "sleep")
  /\ UNCHANGED <<notion, rbr, scan, now, file, last, pc, loc, calls, hist, lockFile>>

(* The function reserve passes to withLock, lines 88-115 (the store reads  *)
(* the clock in ticks of 15 s).                                            *)
CrashSection(p) ==
  /\ lk[p].pc = "load"
  /\ LET r == reserve(file, now \div 15, LockKey, CommandName, LockHash)
     IN /\ file' = r.file
        /\ lk' = [lk EXCEPT ![p].pc = "unlock", ![p].kind = r.kind]
  /\ UNCHANGED <<notion, rbr, scan, now, last, pc, loc, calls, hist, lockFile>>

(* The process dies between acquireLock and releaseLock; one crash is      *)
(* followed.                                                               *)
Crash(p) ==
  /\ lk[p].pc \in {"load", "unlock"}
  /\ ~SomeCrashed
  /\ LockStep(p, "crashed")
  /\ UNCHANGED <<notion, rbr, scan, now, file, last, pc, loc, calls, hist, lockFile>>

(* One second passes; the sleepers wake up. *)
SleepTick ==
  /\ now < MaxCrashTime
  /\ \A p \in Procs : lk[p].pc \in {"idle", "sleep", "done", "crashed"}
  /\ now' = now + 1
  /\ lk' = [p \in Procs |->
              IF lk[p].pc = "sleep" THEN [lk[p] EXCEPT !.pc = "try"] ELSE lk[p]]
  /\ UNCHANGED <<notion, rbr, scan, file, last, pc, loc, calls, hist, lockFile>>

NextCrash ==
  \/ SleepTick
  \/ \E p \in Procs : CrashBegin(p)
  \/ \E p \in Procs : LockTry(p)
  \/ \E p \in Procs : CrashStat(p)
  \/ \E p \in Procs : LockUnlink(p)
  \/ \E p \in Procs : CrashSection(p)
  \/ \E p \in Procs : releaseLock(p)
  \/ \E p \in Procs : Crash(p)

SpecCrash ==
  /\ Init
  /\ [][NextCrash]_vars
  /\ WF_vars(SleepTick)
  /\ \A p \in Procs : WF_vars(LockTry(p) \/ CrashStat(p) \/ LockUnlink(p))
  /\ \A p \in Procs : WF_vars(CrashSection(p) \/ releaseLock(p))

-----------------------------------------------------------------------------
(* replaceBlockRange (notion/repository.ts).  One step per remote call:    *)
(* the planning scan, the re-read of the siblings, one appendBlockChildren *)
(* per chunk, one deleteBlock per block of the range.  Other clients edit  *)
(* the same children between any two steps.                                *)

coordVars == <<now, file, last, pc, loc, calls, hist, lockFile, lk, scan>>

(* insertBlocks: chunk(args.blocks, 100); one model block stands for 50.   *)
CHUNK_SIZE == 2

RECURSIVE chunk(_, _)
chunk(items, chunkSize) ==
  IF Len(items) = 0 THEN <<>>
  ELSE IF Len(items) <= chunkSize THEN <<items>>
  ELSE <<SubSeq(items, 1, chunkSize)>>
         \o chunk(SubSeq(items, chunkSize + 1, Len(items)), chunkSize)

(* Array.prototype.join *)
RECURSIVE Join(_, _)
Join(parts, sep) ==
  IF Len(parts) = 0 THEN ""
  ELSE IF Len(parts) = 1 THEN parts[1]
  ELSE parts[1] \o sep \o Join(Tail(parts), sep)

(* siblingsFingerprint without the last_edited_time of the blocks. *)
siblingsFingerprint_IdsOnly(siblings) ==
  Join([i \in 1..Len(siblings) |-> siblings[i].id], "|")

(* `${block.id}:${block.last_edited_time ?? ""}` joined with "|" *)
siblingsFingerprint(siblings) ==
  Join([i \in 1..Len(siblings) |->
          siblings[i].id \o ":" \o
            (IF siblings[i].last_edited_time = Null THEN ""
             ELSE siblings[i].last_edited_time)], "|")

(* The FlatBlock list built from a listing of the children: by the walk of *)
(* flattenScopeBlocks at planning, by lines 1533-1551 at the re-read.      *)
ToFlatBlocks(raw) ==
  [i \in 1..Len(raw) |->
     [id |-> raw[i].id, last_edited_time |-> raw[i].last_edited_time,
      sibling_index |-> i - 1]]

NewBlocks(n) == [i \in 1..n |-> "paragraph"]

(* The error of a failed call to the remote service. *)
NotionError == RawError("service_unavailable", 503, "Service is unavailable")

InvalidRangeError ==
  CliError("invalid_input",
           "start-selector-json resolved after end-selector-json within the sibling order.",
           FALSE)

ConflictRangeError ==
  CliError("conflict",
           "Target block range changed during planning. Retry to re-resolve the selection.",
           FALSE)

(* The call ends by throwing error; stage is the step that threw.  The     *)
(* error object is thrown as it is: nothing is attached to it.             *)
RangeThrew(r, error, stage) ==
  [r EXCEPT !.pc = "done",
            !.result = [NoRangeResult EXCEPT !.state = "threw", !.error = error,
                                             !.stage = stage]]

(* What follows a remote call that succeeded: the next chunk, then the     *)
(* next block of the deletion loop, then the return of lines 1580-1585.    *)
RangeContinue(r) ==
  IF Len(r.chunks) > 0 THEN [r EXCEPT !.pc = "insert"]
  ELSE IF r.di <= Len(r.blocksToDelete) THEN [r EXCEPT !.pc = "delete"]
  ELSE [r EXCEPT !.pc = "done",
                 !.result = [NoRangeResult EXCEPT
                               !.state = "returned", !.stage = "done",
                               !.inserted_count = r.insert_count,
                               !.deleted_count = Len(r.blocksToDelete)]]

(* Lines 1474-1529: the planning scan of the siblings, the two selectors   *)
(* resolved to the siblings at startIndex and endIndex, the plan, and the  *)
(* return of a dry run.                                                    *)
Plan(startIndex, endIndex, inclusiveStart, inclusiveEnd, blocks, dryRun, fail) ==
  /\ rbr.pc = "idle"
  /\ IF fail
     THEN rbr' = RangeThrew(rbr, NotionError, "plan")
     ELSE LET siblings == ToFlatBlocks(notion.children)
              replaceFrom == IF inclusiveStart THEN startIndex ELSE startIndex + 1
              replaceTo == IF inclusiveEnd THEN endIndex ELSE endIndex - 1
              blocksToDelete ==
                IF replaceFrom <= replaceTo
                THEN SubSeq(siblings, replaceFrom + 1, replaceTo + 1)
                ELSE <<>>
              insertPosition ==
                IF replaceFrom = 0
                THEN [type |-> "start", id |-> Null]
                ELSE [type |-> "after_block", id |-> siblings[replaceFrom].id]
          IN /\ startIndex \in 0..(Len(siblings) - 1)
             /\ endIndex \in 0..(Len(siblings) - 1)
             /\ IF startIndex > endIndex
                THEN rbr' = RangeThrew(rbr, InvalidRangeError, "plan")
                ELSE IF dryRun
                THEN rbr' = [rbr EXCEPT
                               !.pc = "done",
                               !.result = [NoRangeResult EXCEPT
                                             !.state = "returned", !.stage = "plan",
                                             !.dry_run = TRUE]]
                ELSE rbr' = [rbr EXCEPT
                               !.pc = "reread",
                               !.siblings = siblings,
                               !.blocksToDelete = blocksToDelete,
                               !.insertPosition = insertPosition,
                               !.currentPosition = insertPosition,
                               !.chunks = chunk(blocks, CHUNK_SIZE),
                               !.insert_count = Len(blocks)]
  /\ UNCHANGED <<notion, coordVars>>

(* Lines 1531-1559: the siblings are listed again and the two fingerprints *)
(* compared.                                                               *)
Reread(fail) ==
  /\ rbr.pc = "reread"
  /\ IF fail
     THEN rbr' = RangeThrew(rbr, NotionError, "reread")
     ELSE LET beforeFingerprint == siblingsFingerprint(rbr.siblings)
              currentSiblings == ToFlatBlocks(notion.children)
              currentFingerprint == siblingsFingerprint(currentSiblings)
          IN IF beforeFingerprint # currentFingerprint
             THEN rbr' = RangeThrew(rbr, ConflictRangeError, "reread")
             ELSE rbr' = RangeContinue(rbr)
  /\ UNCHANGED <<notion, coordVars>>

IndexOf(children, id) ==
  IF \E i \in 1..Len(children) : children[i].id = id
  THEN CHOOSE i \in 1..Len(children) : children[i].id = id
  ELSE 0

(* InsertChunk that goes on to the deletion loop when the call fails. *)
InsertChunk_DeleteAnyway(fail) ==
  /\ rbr.pc = "insert"
  /\ fail
  /\ notion' = [notion EXCEPT
                  !.issued = Append(@, [op |-> "append", id |-> rbr.currentPosition.id,
                                        ok |-> FALSE])]
  /\ rbr' = RangeContinue([rbr EXCEPT !.chunks = <<>>])
  /\ UNCHANGED coordVars

(* insertBlocks, lines 1353-1376: one appendBlockChildren call with the    *)
(* next chunk at currentPosition.  The service rejects a position after a  *)
(* block that is no longer a child.                                        *)
InsertChunk(fail) ==
  /\ rbr.pc = "insert"
  /\ LET children == Head(rbr.chunks)
         position == rbr.currentPosition
         at == IF position.type = "start" THEN 0
               ELSE IndexOf(notion.children, position.id)
         anchored == position.type = "start" \/ at > 0
         call == [op |-> "append", id |-> position.id, ok |-> ~fail /\ anchored]
     IN IF fail \/ ~anchored
        THEN /\ notion' = [notion EXCEPT !.issued = Append(@, call)]
             /\ rbr' = RangeThrew(rbr, NotionError, "insert")
        ELSE LET chunkIds ==
                   [i \in 1..Len(children) |-> "n" \o ToString(notion.created + i)]
                 inserted ==
                   [i \in 1..Len(children) |->
                      [id |-> chunkIds[i], last_edited_time |-> "t1"]]
             IN /\ notion' = [notion EXCEPT
                                !.children =
                                   SubSeq(@, 1, at) \o inserted \o SubSeq(@, at + 1, Len(@)),
                                !.issued = Append(@, call),
                                !.created = @ + Len(children)]
                /\ rbr' = RangeContinue(
                            [rbr EXCEPT
                               !.chunks = Tail(@),
                               !.insertedIds = @ \o chunkIds,
                               !.currentPosition =
                                  [type |-> "after_block",
                                   id |-> chunkIds[Len(chunkIds)]]])
  /\ UNCHANGED coordVars

(* Lines 1574-1578: one deleteBlock call of the deletion loop.  The        *)
(* service rejects the deletion of a block that is no longer a child.      *)
DeleteOne(fail) ==
  /\ rbr.pc = "delete"
  /\ LET block == rbr.blocksToDelete[rbr.di]
         at == IndexOf(notion.children, block.id)
         call == [op |-> "delete", id |-> block.id, ok |-> ~fail /\ at > 0]
     IN IF fail \/ at = 0
        THEN /\ notion' = [notion EXCEPT !.issued = Append(@, call)]
             /\ rbr' = RangeThrew(rbr, NotionError, "delete")
        ELSE /\ notion' = [notion EXCEPT
                             !.children = SubSeq(@, 1, at - 1) \o SubSeq(@, at + 1, Len(@)),
                             !.issued = Append(@, call)]
             /\ rbr' = RangeContinue([rbr EXCEPT !.di = @ + 1])
  /\ UNCHANGED coordVars

(* Another client of the service edits the children: it adds a block after *)
(* the first i children, removes, moves or edits the child at i.           *)
RemoteEdit(kind, i) ==
  /\ notion.edits < MaxEdits
  /\ LET ch == notion.children
         n == Len(ch)
     IN \/ /\ kind = "add"
           /\ i \in 0..n
           /\ notion' = [notion EXCEPT
                           !.children =
                              SubSeq(ch, 1, i)
                                \o <<[id |-> "x" \o ToString(notion.edits + 1),
                                      last_edited_time |-> "t2"]>>
                                \o SubSeq(ch, i + 1, n),
                           !.edits = @ + 1]
        \/ /\ kind = "remove"
           /\ i \in 1..n
           /\ notion' = [notion EXCEPT
                           !.children = SubSeq(ch, 1, i - 1) \o SubSeq(ch, i + 1, n),
                           !.trashed = @ \cup {ch[i].id},
                           !.edits = @ + 1]
        \/ /\ kind = "reorder"
           /\ i \in 1..(n - 1)
           /\ notion' = [notion EXCEPT
                           !.children = [ch EXCEPT ![i] = ch[i + 1], ![i + 1] = ch[i]],
                           !.edits = @ + 1]
        \/ /\ kind = "touch"
           /\ i \in 1..n
           /\ notion' = [notion EXCEPT
                           !.children = [ch EXCEPT ![i].last_edited_time = "t2"],
                           !.edits = @ + 1]
  /\ UNCHANGED <<rbr, coordVars>>

EditKinds == {"add", "remove", "reorder", "touch"}

NextRange ==
  \/ \E startIndex, endIndex \in 0..(NumSiblings + MaxEdits - 1),
        inclusiveStart, inclusiveEnd, dryRun, fail \in BOOLEAN,
        n \in 0..MaxNewBlocks :
        Plan(startIndex, endIndex, inclusiveStart, inclusiveEnd, NewBlocks(n), dryRun, fail)
  \/ \E fail \in BOOLEAN : Reread(fail)
  \/ \E fail \in BOOLEAN : InsertChunk(fail)
  \/ \E fail \in BOOLEAN : DeleteOne(fail)
  \/ \E kind \in EditKinds, i \in 0..(NumSiblings + MaxEdits + MaxNewBlocks) :
        RemoteEdit(kind, i)

SpecRange == Init /\ [][NextRange]_vars

-----------------------------------------------------------------------------
(* Scanning and selecting blocks (notion/repository.ts): the listing of    *)
(* the children of a block, flattenScopeBlocks, matchesSelector,           *)
(* resolveSelectorStrict, selectBlocks and the plan of replaceBlockRange.  *)

ScopeId == "root"

BlockId(i) == IF i = 0 THEN ScopeId ELSE "k" \o ToString(i)

BlockNumber(id) == CHOOSE i \in 0..MaxTreeBlocks : BlockId(i) = id

BLOCK_TYPES == <<"paragraph", "heading_1">>
BLOCK_TEXTS == <<"TODO", "Start", "a todo", "End">>

BlockType(tree, i) == BLOCK_TYPES[((i \div tree.labeling) % 2) + 1]
BlockText(tree, i) == BLOCK_TEXTS[((i * tree.labeling) % 4) + 1]

(* listDirectChildren, lines 1103-1139: the blocks the service lists under *)
(* parentId, in order.                                                     *)
listDirectChildren(tree, parentId) ==
  LET numbers == SelectSeq([i \in 1..MaxTreeBlocks |-> i],
                           LAMBDA i : tree.parent[i] = BlockNumber(parentId))
  IN [k \in 1..Len(numbers) |->
        [id |-> IF numbers[k] \in tree.noId THEN Null ELSE BlockId(numbers[k]),
         type |-> BlockType(tree, numbers[k]),
         text |-> BlockText(tree, numbers[k]),
         has_children |-> \E j \in 1..MaxTreeBlocks : tree.parent[j] = numbers[k],
         last_edited_time |-> "t0"]]

ScanLimitError(maxBlocks) ==
  CliError("invalid_input",
           "Selection scan exceeded max blocks (" \o ToString(maxBlocks)
             \o "). Increase scan_max_blocks.",
           FALSE)

RECURSIVE walk(_, _, _, _)
RECURSIVE pushSiblings(_, _, _, _, _)
RECURSIVE walkChildren(_, _, _, _, _)

(* flattenScopeBlocks, lines 1153-1176: the loop over siblingsRaw, from    *)
(* its k-th entry on; an entry without a string id is passed over (lines   *)
(* 1154-1157); st.threw stands for the error of lines 1159-1164.           *)
pushSiblings(siblingsRaw, parentId, k, maxBlocks, st) ==
  IF k > Len(siblingsRaw) THEN st
  ELSE IF siblingsRaw[k].id = Null
  THEN pushSiblings(siblingsRaw, parentId, k + 1, maxBlocks, st)
  ELSE IF Len(st.blocks) >= maxBlocks THEN [st EXCEPT !.threw = TRUE]
  ELSE LET block == siblingsRaw[k]
           flat == [id |-> block.id, parent_id |-> parentId, type |-> block.type,
                    text |-> block.text, has_children |-> block.has_children,
                    last_edited_time |-> block.last_edited_time,
                    sibling_index |-> k - 1, order_index |-> Len(st.blocks)]
       IN pushSiblings(siblingsRaw, parentId, k + 1, maxBlocks,
                       [st EXCEPT !.blocks = Append(@, flat),
                                  !.siblings = Append(@, flat)])

(* Lines 1180-1184: the loop over siblings that walks into those with      *)
(* children, from its k-th entry on.                                       *)
walkChildren(tree, siblings, k, maxBlocks, st) ==
  IF st.threw \/ k > Len(siblings) THEN st
  ELSE walkChildren(tree, siblings, k + 1, maxBlocks,
                    IF siblings[k].has_children
                    THEN walk(tree, siblings[k].id, maxBlocks, st)
                    ELSE st)

(* Lines 1149-1185: walk(parentId). *)
walk(tree, parentId, maxBlocks, st) ==
  LET pushed == pushSiblings(listDirectChildren(tree, parentId), parentId, 1, maxBlocks,
                             [st EXCEPT !.siblings = <<>>])
  IN IF pushed.threw THEN pushed
     ELSE walkChildren(tree, pushed.siblings, 1, maxBlocks,
                       [pushed EXCEPT
                          !.siblingsByParent = (parentId :> pushed.siblings) @@ @])

(* flattenScopeBlocks that lets one block more through than maxBlocks. *)
flattenScopeBlocks_OneMore(tree, scopeId, maxBlocks) ==
  LET st == walk(tree, scopeId, maxBlocks + 1,
                 [blocks |-> <<>>, siblings |-> <<>>, siblingsByParent |-> EmptyMap,
                  threw |-> FALSE])
  IN IF st.threw
     THEN [kind |-> "throw", error |-> ScanLimitError(maxBlocks), blocks |-> <<>>,
           siblingsByParent |-> EmptyMap]
     ELSE [kind |-> "ok", error |-> NoError, blocks |-> st.blocks,
           siblingsByParent |-> st.siblingsByParent]

(* flattenScopeBlocks that lists the blocks of the scope last first. *)
flattenScopeBlocks_Reversed(tree, scopeId, maxBlocks) ==
  LET st == walk(tree, scopeId, maxBlocks,
                 [blocks |-> <<>>, siblings |-> <<>>, siblingsByParent |-> EmptyMap,
                  threw |-> FALSE])
  IN IF st.threw
     THEN [kind |-> "throw", error |-> ScanLimitError(maxBlocks), blocks |-> <<>>,
           siblingsByParent |-> EmptyMap]
     ELSE [kind |-> "ok", error |-> NoError,
           blocks |-> [k \in 1..Len(st.blocks) |->
                         [st.blocks[Len(st.blocks) + 1 - k] EXCEPT !.order_index = k - 1]],
           siblingsByParent |-> st.siblingsByParent]

flattenScopeBlocks(tree, scopeId, maxBlocks) ==
  LET st == walk(tree, scopeId, maxBlocks,
                 [blocks |-> <<>>, siblings |-> <<>>, siblingsByParent |-> EmptyMap,
                  threw |-> FALSE])
  IN IF st.threw
     THEN [kind |-> "throw", error |-> ScanLimitError(maxBlocks), blocks |-> <<>>,
           siblingsByParent |-> EmptyMap]
     ELSE [kind |-> "ok", error |-> NoError, blocks |-> st.blocks,
           siblingsByParent |-> st.siblingsByParent]

(* String.prototype.toLowerCase, on the letters the texts and needles of   *)
(* the model hold in upper case.                                           *)
LowerChar(c) ==
  CASE c = "T" -> "t" [] c = "O" -> "o" [] c = "D" -> "d" [] c = "S" -> "s"
    [] c = "E" -> "e" [] OTHER -> c

RECURSIVE toLowerCase(_)
toLowerCase(str) ==
  IF Len(str) = 0 THEN ""
  ELSE LowerChar(SubSeq(str, 1, 1)) \o toLowerCase(SubSeq(str, 2, Len(str)))

(* String.prototype.includes *)
includes(str, needle) ==
  \E i \in 1..(Len(str) - Len(needle) + 1) : SubSeq(str, i, i + Len(needle) - 1) = needle

(* The truth value JavaScript gives a string or undefined in a condition. *)
Truthy(str) == str # Undefined /\ str # ""

(* matchesSelector that compares the text as it is written. *)
matchesSelector_CaseSensitive(block, selector) ==
  /\ Truthy(selector.where.type) => block.type = selector.where.type
  /\ Truthy(selector.where.parent_id) => block.parent_id = selector.where.parent_id
  /\ Truthy(selector.where.text_contains) =>
        includes(block.text, selector.where.text_contains)

matchesSelector(block, selector) ==
  /\ Truthy(selector.where.type) => block.type = selector.where.type
  /\ Truthy(selector.where.parent_id) => block.parent_id = selector.where.parent_id
  /\ Truthy(selector.where.text_contains) =>
        includes(toLowerCase(block.text), toLowerCase(selector.where.text_contains))

(* blocks.filter((block) => matchesSelector(block, selector)) *)
FilterMatches(blocks, selector) ==
  SelectSeq(blocks, LAMBDA block : matchesSelector(block, selector))

NoMatchError(label) == CliError("not_found", label \o " matched no blocks.", FALSE)

AmbiguousError(label, count) ==
  CliError("conflict",
           label \o " matched " \o ToString(count)
             \o " blocks. Provide nth and/or where.parent_id to disambiguate.",
           FALSE)

NthRangeError(label, nth, count) ==
  CliError("not_found",
           label \o " nth=" \o ToString(nth) \o " is out of range for "
             \o ToString(count) \o " matches.",
           FALSE)

(* Absent nth of a normalized selector (normalizeSelector admits only      *)
(* integers from 1 on).                                                    *)
NoNth == 0

(* matches[index] with the index of lines 1079 and 1439. *)
NthIndex(selector, count) ==
  IF selector.from = "start" THEN selector.nth - 1 ELSE count - selector.nth

Resolved(selected, matches) ==
  [kind |-> "ok", error |-> NoError, selected |-> selected, matches |-> matches]

ResolveThrew(error) ==
  [kind |-> "throw", error |-> error, selected |-> NoBlock, matches |-> <<>>]

(* resolveSelectorStrict that takes the nearest match when nth is out of   *)
(* range.                                                                  *)
resolveSelectorStrict_Clamped(blocks, selector, label) ==
  LET matches == FilterMatches(blocks, selector)
      index == NthIndex(selector, Len(matches))
  IN IF Len(matches) = 0 THEN ResolveThrew(NoMatchError(label))
     ELSE IF selector.nth = NoNth
     THEN IF Len(matches) > 1
          THEN ResolveThrew(AmbiguousError(label, Len(matches)))
          ELSE Resolved(matches[1], matches)
     ELSE IF index < 0 THEN Resolved(matches[1], matches)
     ELSE IF index >= Len(matches) THEN Resolved(matches[Len(matches)], matches)
     ELSE Resolved(matches[index + 1], matches)

resolveSelectorStrict(blocks, selector, label) ==
  LET matches == FilterMatches(blocks, selector)
      index == NthIndex(selector, Len(matches))
  IN IF Len(matches) = 0 THEN ResolveThrew(NoMatchError(label))
     ELSE IF selector.nth = NoNth
     THEN IF Len(matches) > 1
          THEN ResolveThrew(AmbiguousError(label, Len(matches)))
          ELSE Resolved(matches[1], matches)
     ELSE IF index < 0 \/ index >= Len(matches)
     THEN ResolveThrew(NthRangeError(label, selector.nth, Len(matches)))
     ELSE Resolved(matches[index + 1], matches)

SelectThrew(error) == [NoScanOut EXCEPT !.kind = "throw", !.error = error]

(* selectBlocks that settles an ambiguous selection on the first match. *)
selectBlocks_PickFirst(tree, scopeId, selector, maxBlocks) ==
  LET flattened == flattenScopeBlocks(tree, scopeId, maxBlocks)
      matches == FilterMatches(flattened.blocks, selector)
      index == NthIndex(selector, Len(matches))
  IN IF flattened.kind = "throw" THEN SelectThrew(flattened.error)
     ELSE IF Len(matches) = 0 THEN SelectThrew(NoMatchError("selector-json"))
     ELSE IF selector.nth # NoNth /\ (index < 0 \/ index >= Len(matches))
     THEN SelectThrew(NthRangeError("selector-json", selector.nth, Len(matches)))
     ELSE [NoScanOut EXCEPT
             !.kind = "ok",
             !.match_count = Len(matches),
             !.ambiguous = FALSE,
             !.selected = IF selector.nth # NoNth THEN matches[index + 1]
                          ELSE matches[1],
             !.matches = matches]

(* selectBlocks, lines 1417-1459. *)
selectBlocks(tree, scopeId, selector, maxBlocks) ==
  LET flattened == flattenScopeBlocks(tree, scopeId, maxBlocks)
      matches == FilterMatches(flattened.blocks, selector)
      index == NthIndex(selector, Len(matches))
  IN IF flattened.kind = "throw" THEN SelectThrew(flattened.error)
     ELSE IF Len(matches) = 0 THEN SelectThrew(NoMatchError("selector-json"))
     ELSE IF selector.nth # NoNth /\ (index < 0 \/ index >= Len(matches))
     THEN SelectThrew(NthRangeError("selector-json", selector.nth, Len(matches)))
     ELSE [NoScanOut EXCEPT
             !.kind = "ok",
             !.match_count = Len(matches),
             !.ambiguous = (selector.nth = NoNth /\ Len(matches) > 1),
             !.selected = IF selector.nth # NoNth THEN matches[index + 1]
                          ELSE IF Len(matches) = 1 THEN matches[1]
                          ELSE NoBlock,
             !.matches = matches]

CrossParentError ==
  CliError("invalid_input",
           "start-selector-json and end-selector-json must resolve to siblings under the same parent block.",
           FALSE)

StartAfterEndError ==
  CliError("invalid_input",
           "start-selector-json resolved after end-selector-json within the sibling order.",
           FALSE)

(* siblings[replaceFrom - 1].id (line 1506) where the array is too short:  *)
(* the element is undefined and reading its id throws a TypeError.         *)
UndefinedIdError ==
  RawError("none", 0, "Cannot read properties of undefined (reading 'id')")

(* Array.prototype.slice(start, end) for 0 <= start: the elements at the   *)
(* indices start .. end - 1 the array has.                                 *)
slice(items, start, end) ==
  IF start >= Len(items) \/ end <= start THEN <<>>
  ELSE SubSeq(items, start + 1, IF end > Len(items) THEN Len(items) ELSE end)

(* The one block a replace-range request of the model inserts. *)
RangeBlocks == <<"n1">>

(* Lines 1561-1578 where no call fails: one insertion call a chunk, each   *)
(* after the last block of the chunk before it.                            *)
RangeInsertCalls(insertPosition) ==
  [k \in 1..Len(chunk(RangeBlocks, CHUNK_SIZE)) |->
     [op |-> "append",
      id |-> IF k = 1 THEN insertPosition.id
             ELSE chunk(RangeBlocks, CHUNK_SIZE)[k - 1][CHUNK_SIZE],
      position |-> IF k = 1 THEN insertPosition.type ELSE "after_block"]]

(* Lines 1580-1583 where no call fails: one deletion call a block. *)
RangeDeleteCalls(blocksToDelete) ==
  [k \in 1..Len(blocksToDelete) |->
     [op |-> "delete", id |-> blocksToDelete[k].id, position |-> "none"]]

(* replaceBlockRange that takes the siblings of the start block's parent   *)
(* whatever the parent of the end block is.                                *)
replaceBlockRange_AnyParent(tree, scopeId, startSelector, endSelector, inclusiveStart, inclusiveEnd, dryRun, maxBlocks) ==
  LET planOf(siblings, startBlock, endBlock, replaceFrom, replaceTo) ==
        LET blocksToDelete ==
              IF replaceFrom <= replaceTo
              THEN SubSeq(siblings, replaceFrom + 1, IF replaceTo + 1 > Len(siblings) THEN Len(siblings) ELSE replaceTo + 1)
              ELSE <<>>
            insertPosition ==
              IF replaceFrom = 0
              THEN [type |-> "start", id |-> Null]
              ELSE [type |-> "after_block", id |-> siblings[replaceFrom].id]
            plan == [NoScanOut EXCEPT
                       !.kind = "ok",
                       !.parent_id = startBlock.parent_id,
                       !.start = startBlock,
                       !.end = endBlock,
                       !.delete_ids =
                         [k \in 1..Len(blocksToDelete) |-> blocksToDelete[k].id],
                       !.insert_position = insertPosition]
        IN IF dryRun THEN [plan EXCEPT !.dry_run = TRUE]
           ELSE [plan EXCEPT
                   !.issued = RangeInsertCalls(insertPosition)
                              \o RangeDeleteCalls(blocksToDelete)]
      ordered(flattened, startBlock, endBlock) ==
        IF startBlock.parent_id = endBlock.parent_id
           /\ startBlock.sibling_index > endBlock.sibling_index
        THEN SelectThrew(StartAfterEndError)
        ELSE planOf(flattened.siblingsByParent[startBlock.parent_id], startBlock, endBlock,
                    IF inclusiveStart THEN startBlock.sibling_index
                    ELSE startBlock.sibling_index + 1,
                    IF inclusiveEnd THEN endBlock.sibling_index
                    ELSE endBlock.sibling_index - 1)
      resolved(flattened, start, end) ==
        IF start.kind = "throw" THEN SelectThrew(start.error)
        ELSE IF end.kind = "throw" THEN SelectThrew(end.error)
        ELSE ordered(flattened, start.selected, end.selected)
      scanned(flattened) ==
        IF flattened.kind = "throw" THEN SelectThrew(flattened.error)
        ELSE resolved(flattened,
                      resolveSelectorStrict(flattened.blocks, startSelector,
                                            "start-selector-json"),
                      resolveSelectorStrict(flattened.blocks, endSelector,
                                            "end-selector-json"))
  IN scanned(flattenScopeBlocks(tree, scopeId, maxBlocks))

(* replaceBlockRange that inserts after the start block itself. *)
replaceBlockRange_AnchorInside(tree, scopeId, startSelector, endSelector, inclusiveStart, inclusiveEnd, dryRun, maxBlocks) ==
  LET planOf(siblings, startBlock, endBlock, replaceFrom, replaceTo) ==
        LET blocksToDelete ==
              IF replaceFrom <= replaceTo
              THEN SubSeq(siblings, replaceFrom + 1, replaceTo + 1)
              ELSE <<>>
            insertPosition ==
              IF replaceFrom = 0
              THEN [type |-> "start", id |-> Null]
              ELSE [type |-> "after_block", id |-> startBlock.id]
            plan == [NoScanOut EXCEPT
                       !.kind = "ok",
                       !.parent_id = startBlock.parent_id,
                       !.start = startBlock,
                       !.end = endBlock,
                       !.delete_ids =
                         [k \in 1..Len(blocksToDelete) |-> blocksToDelete[k].id],
                       !.insert_position = insertPosition]
        IN IF dryRun THEN [plan EXCEPT !.dry_run = TRUE]
           ELSE [plan EXCEPT
                   !.issued = RangeInsertCalls(insertPosition)
                              \o RangeDeleteCalls(blocksToDelete)]
      ordered(flattened, startBlock, endBlock) ==
        IF startBlock.parent_id # endBlock.parent_id THEN SelectThrew(CrossParentError)
        ELSE IF startBlock.sibling_index > endBlock.sibling_index
        THEN SelectThrew(StartAfterEndError)
        ELSE planOf(flattened.siblingsByParent[startBlock.parent_id], startBlock, endBlock,
                    IF inclusiveStart THEN startBlock.sibling_index
                    ELSE startBlock.sibling_index + 1,
                    IF inclusiveEnd THEN endBlock.sibling_index
                    ELSE endBlock.sibling_index - 1)
      resolved(flattened, start, end) ==
        IF start.kind = "throw" THEN SelectThrew(start.error)
        ELSE IF end.kind = "throw" THEN SelectThrew(end.error)
        ELSE ordered(flattened, start.selected, end.selected)
      scanned(flattened) ==
        IF flattened.kind = "throw" THEN SelectThrew(flattened.error)
        ELSE resolved(flattened,
                      resolveSelectorStrict(flattened.blocks, startSelector,
                                            "start-selector-json"),
                      resolveSelectorStrict(flattened.blocks, endSelector,
                                            "end-selector-json"))
  IN scanned(flattenScopeBlocks(tree, scopeId, maxBlocks))

(* replaceBlockRange, lines 1461-1586, with a service that answers every   *)
(* call and siblings nobody else edits (the failing calls and the edits    *)
(* of others are the subject of Plan, Reread, InsertChunk and DeleteOne).  *)
replaceBlockRange(tree, scopeId, startSelector, endSelector, inclusiveStart, inclusiveEnd, dryRun, maxBlocks) ==
  LET planOf(siblings, startBlock, endBlock, replaceFrom, replaceTo) ==
        LET blocksToDelete ==
              IF replaceFrom <= replaceTo
              THEN slice(siblings, replaceFrom, replaceTo + 1)
              ELSE <<>>
            insertPosition ==
              IF replaceFrom = 0
              THEN [type |-> "start", id |-> Null]
              ELSE [type |-> "after_block", id |-> siblings[replaceFrom].id]
            plan == [NoScanOut EXCEPT
                       !.kind = "ok",
                       !.parent_id = startBlock.parent_id,
                       !.start = startBlock,
                       !.end = endBlock,
                       !.delete_ids =
                         [k \in 1..Len(blocksToDelete) |-> blocksToDelete[k].id],
                       !.insert_position = insertPosition]
        IN IF replaceFrom > Len(siblings) THEN SelectThrew(UndefinedIdError)
           ELSE IF dryRun THEN [plan EXCEPT !.dry_run = TRUE]
           ELSE [plan EXCEPT
                   !.issued = RangeInsertCalls(insertPosition)
                              \o RangeDeleteCalls(blocksToDelete)]
      ordered(flattened, startBlock, endBlock) ==
        IF startBlock.parent_id # endBlock.parent_id THEN SelectThrew(CrossParentError)
        ELSE IF startBlock.sibling_index > endBlock.sibling_index
        THEN SelectThrew(StartAfterEndError)
        ELSE planOf(flattened.siblingsByParent[startBlock.parent_id], startBlock, endBlock,
                    IF inclusiveStart THEN startBlock.sibling_index
                    ELSE startBlock.sibling_index + 1,
                    IF inclusiveEnd THEN endBlock.sibling_index
                    ELSE endBlock.sibling_index - 1)
      resolved(flattened, start, end) ==
        IF start.kind = "throw" THEN SelectThrew(start.error)
        ELSE IF end.kind = "throw" THEN SelectThrew(end.error)
        ELSE ordered(flattened, start.selected, end.selected)
      scanned(flattened) ==
        IF flattened.kind = "throw" THEN SelectThrew(flattened.error)
        ELSE resolved(flattened,
                      resolveSelectorStrict(flattened.blocks, startSelector,
                                            "start-selector-json"),
                      resolveSelectorStrict(flattened.blocks, endSelector,
                                            "end-selector-json"))
  IN scanned(flattenScopeBlocks(tree, scopeId, maxBlocks))

(* The selectors normalizeSelector (lines 985-1031) returns: every field   *)
(* of where is a string or undefined, from is start or end, nth is absent  *)
(* or an integer from 1 on.                                                *)
Selectors ==
  [where : [type : {Undefined, "", "paragraph"},
            text_contains : {Undefined, "Todo"},
            parent_id : {Undefined, ScopeId, BlockId(1)}],
   from : {"start", "end"},
   nth : NoNth..MaxNth]

(* The selectors of the replace-range requests of the model. *)
RangeSelectors ==
  [where : [type : {Undefined}, text_contains : {Undefined},
            parent_id : {Undefined, BlockId(1)}],
   from : {"start", "end"},
   nth : 1..MaxNth]

(* One invocation of the program makes one scan: every action below      *)
(* starts from the state in which none was made.                           *)
scanFrame == <<now, file, last, pc, loc, calls, hist, lockFile, lk, notion, rbr>>

ScanCall(op, tree, maxBlocks) ==
  [InitScan EXCEPT !.op = op, !.tree = tree, !.maxBlocks = maxBlocks]

(* flattenScopeBlocks(notion, scopeId, maxBlocks) *)
Flatten(tree, maxBlocks) ==
  /\ scan.op = "none"
  /\ LET flattened == flattenScopeBlocks(tree, ScopeId, maxBlocks)
     IN scan' = [ScanCall("flatten", tree, maxBlocks) EXCEPT
                   !.out = [NoScanOut EXCEPT !.kind = flattened.kind,
                                             !.error = flattened.error,
                                             !.blocks = flattened.blocks]]
  /\ UNCHANGED scanFrame

(* selectBlocks(notion, {scopeId, selector, maxBlocks}) *)
Select(tree, selector, maxBlocks) ==
  /\ scan.op = "none"
  /\ scan' = [ScanCall("select", tree, maxBlocks) EXCEPT
                !.selector = selector,
                !.out = selectBlocks(tree, ScopeId, selector, maxBlocks)]
  /\ UNCHANGED scanFrame

(* resolveSelectorStrict(flattened.blocks, selector, label) on the blocks  *)
(* of a scan that stayed within its limit.                                 *)
ResolveStrict(tree, selector) ==
  /\ scan.op = "none"
  /\ LET flattened == flattenScopeBlocks(tree, ScopeId, MaxTreeBlocks)
         resolved == resolveSelectorStrict(flattened.blocks, selector, "start-selector-json")
     IN scan' = [ScanCall("resolve", tree, MaxTreeBlocks) EXCEPT
                   !.selector = selector,
                   !.out = [NoScanOut EXCEPT !.kind = resolved.kind,
                                             !.error = resolved.error,
                                             !.selected = resolved.selected,
                                             !.matches = resolved.matches]]
  /\ UNCHANGED scanFrame

(* replaceBlockRange(notion, args) *)
ReplaceRange(tree, startSelector, endSelector, inclusiveStart, inclusiveEnd, dryRun) ==
  /\ scan.op = "none"
  /\ scan' = [ScanCall("replace_range", tree, MaxTreeBlocks) EXCEPT
                !.selector = startSelector,
                !.endSelector = endSelector,
                !.inclusiveStart = inclusiveStart,
                !.inclusiveEnd = inclusiveEnd,
                !.dryRun = dryRun,
                !.out = replaceBlockRange(tree, ScopeId, startSelector, endSelector,
                                          inclusiveStart, inclusiveEnd, dryRun,
                                          MaxTreeBlocks)]
  /\ UNCHANGED scanFrame

(* The trees an invocation that has yet to scan may find. *)
TreesToScan == IF scan.op = "none" THEN Trees ELSE {}

NextSelect ==
  \/ \E tree \in TreesToScan, maxBlocks \in 0..(MaxTreeBlocks + 1) :
       Flatten(tree, maxBlocks)
  \/ \E tree \in TreesToScan, selector \in Selectors,
        maxBlocks \in {MaxTreeBlocks - 1, MaxTreeBlocks} :
       Select(tree, selector, maxBlocks)
  \/ \E tree \in TreesToScan, selector \in Selectors : ResolveStrict(tree, selector)
  \/ \E tree \in {t \in TreesToScan : t.labeling = 1},
        startSelector \in RangeSelectors, endSelector \in RangeSelectors,
        inclusiveStart \in BOOLEAN, inclusiveEnd \in BOOLEAN, dryRun \in BOOLEAN :
       ReplaceRange(tree, startSelector, endSelector, inclusiveStart, inclusiveEnd, dryRun)

SpecSelect == Init /\ [][NextSelect]_vars

(* SpecRaw: the scans of trees in which the service lists at most one      *)
(* block without a string id.                                              *)
RawTrees ==
  [parent : TreeShapes, labeling : {1},
   noId : {n \in SUBSET (1..MaxTreeBlocks) : Cardinality(n) <= 1}]

RawTreesToScan == IF scan.op = "none" THEN RawTrees ELSE {}

NextRaw ==
  \/ \E tree \in RawTreesToScan, maxBlocks \in 0..(MaxTreeBlocks + 1) :
       Flatten(tree, maxBlocks)
  \/ \E tree \in RawTreesToScan,
        startSelector \in RangeSelectors, endSelector \in RangeSelectors,
        inclusiveStart \in BOOLEAN, inclusiveEnd \in BOOLEAN, dryRun \in BOOLEAN :
       ReplaceRange(tree, startSelector, endSelector, inclusiveStart, inclusiveEnd, dryRun)

SpecRaw == Init /\ [][NextRaw]_vars

-----------------------------------------------------------------------------
(* getBlocks (notion/repository.ts): the children of a block, to a given   *)
(* depth, up to maxBlocks blocks in all.                                   *)

(* page_size of listBlockChildren: one model block stands for 50. *)
PAGE_SIZE == 2

RECURSIVE collectChildren(_, _, _, _, _)
RECURSIVE collectPages(_, _, _, _, _, _)
RECURSIVE collectResults(_, _, _, _, _, _, _)

(* collectChildren, lines 1229-1256: the loop over the results of one page *)
(* of children, from entry i to entry upto.  st.returned holds the ids of  *)
(* the blocks pushed to a results array so far.                            *)
collectResults(tree, children, i, upto, depth, maxBlocks, st) ==
  IF i > upto THEN st
  ELSE IF st.count >= maxBlocks THEN [st EXCEPT !.truncated = TRUE]
  ELSE LET pushed(inner) == [inner EXCEPT !.returned = Append(@, children[i].id)]
           counted == [st EXCEPT !.count = @ + 1]
       IN collectResults(tree, children, i + 1, upto, depth, maxBlocks,
                         pushed(IF depth > 1 /\ children[i].has_children
                                THEN collectChildren(tree, children[i].id, depth - 1,
                                                     maxBlocks, counted)
                                ELSE counted))

(* Lines 1214-1270: the loop over the pages; from is the cursor, the       *)
(* number of the first child of the next page.                             *)
collectPages(tree, children, from, depth, maxBlocks, st) ==
  IF ~(st.count < maxBlocks) THEN st
  ELSE LET upto == IF from + PAGE_SIZE - 1 < Len(children)
                   THEN from + PAGE_SIZE - 1 ELSE Len(children)
           has_more == upto < Len(children)
           paged(after) ==
             IF after.count >= maxBlocks
             THEN IF has_more THEN [after EXCEPT !.truncated = TRUE] ELSE after
             ELSE IF ~has_more THEN after
             ELSE collectPages(tree, children, upto + 1, depth, maxBlocks, after)
       IN paged(collectResults(tree, children, from, upto, depth, maxBlocks, st))

collectChildren(tree, blockId, depth, maxBlocks, st) ==
  collectPages(tree, listDirectChildren(tree, blockId), 1, depth, maxBlocks, st)

(* getBlocks, lines 1275-1316. *)
getBlocks(tree, pageOrBlockId, maxBlocks, depth) ==
  LET state == collectChildren(tree, pageOrBlockId, depth, maxBlocks,
                               [count |-> 0, truncated |-> FALSE, returned |-> <<>>])
  IN [NoScanOut EXCEPT !.kind = "ok", !.returned = state.returned,
                       !.returned_blocks = state.count,
                       !.truncated = state.truncated]

(* The depths a read asks for. *)
MaxDepth == 3

(* getBlocks(notion, pageOrBlockId, maxBlocks, depth, view) *)
GetBlocks(tree, maxBlocks, depth) ==
  /\ scan.op = "none"
  /\ scan' = [ScanCall("get_blocks", tree, maxBlocks) EXCEPT
                !.depth = depth,
                !.out = getBlocks(tree, ScopeId, maxBlocks, depth)]
  /\ UNCHANGED scanFrame

NextRead ==
  \E tree \in {t \in TreesToScan : t.labeling = 1} :
    \E maxBlocks \in 1..(MaxTreeBlocks + 1), depth \in 1..MaxDepth :
      GetBlocks(tree, maxBlocks, depth)

SpecRead == Init /\ [][NextRead]_vars

-----------------------------------------------------------------------------
(* The block commands with --dry-run (cli.ts, blocks append, insert and    *)
(* replace-range): each hands executeMutationWithIdempotency a command     *)
(* name, a request shape and a run.                                        *)

BlockCommands == {"blocks.append", "blocks.insert", "blocks.replace_range"}

(* A command name that is the same with and without --dry-run. *)
blockCommandName_Shared(base, dryRun) == base

(* cli.ts lines 1094, 1152 and 1258. *)
blockCommandName(base, dryRun) == IF dryRun THEN base \o ".dry_run" ELSE base

(* cli.ts lines 1096-1100, 1154-1159 and 1260-1269: the request shape of   *)
(* one set of arguments, s1 with dry_run false and s2 with dry_run true.   *)
blockRequestShape(dryRun) == IF dryRun THEN "s2" ELSE "s1"

(* insertBlocks, lines 1326-1385, with a service that answers every call. *)
insertBlocks(parentId, blocks, position, dryRun) ==
  IF Len(blocks) = 0
  THEN SelectThrew(CliError("invalid_input", "At least one block is required.", FALSE))
  ELSE IF dryRun
  THEN [NoScanOut EXCEPT !.kind = "ok", !.parent_id = parentId,
                         !.insert_position = position, !.dry_run = TRUE]
  ELSE [NoScanOut EXCEPT
          !.kind = "ok", !.parent_id = parentId, !.insert_position = position,
          !.issued = [k \in 1..Len(chunk(blocks, CHUNK_SIZE)) |->
                        [op |-> "append", id |-> parentId,
                         position |-> IF k = 1 THEN position.type ELSE "after_block"]]]

(* appendBlocks, lines 1387-1415. *)
appendBlocks(parentId, blocks, dryRun) ==
  insertBlocks(parentId, blocks, [type |-> "end", id |-> Null], dryRun)

(* The tree whose blocks are all children of the scope. *)
SiblingsOnly == CHOOSE tree \in Trees : tree = InitScan.tree

(* The first and the second block of the scope, by position. *)
FirstBlock == [NoSelector EXCEPT !.nth = 1]
SecondBlock == [NoSelector EXCEPT !.nth = 2]

(* The run callback of the three commands, on one set of arguments. *)
blockRun(base, dryRun) ==
  CASE base = "blocks.append" -> appendBlocks(ScopeId, RangeBlocks, dryRun)
    [] base = "blocks.insert" ->
         insertBlocks(ScopeId, RangeBlocks, [type |-> "start", id |-> Null], dryRun)
    [] OTHER ->
         replaceBlockRange(SiblingsOnly, ScopeId, FirstBlock, SecondBlock, TRUE, TRUE,
                           dryRun, MaxTreeBlocks)

(* What is stored as the response of a run: the plan of a dry run or the   *)
(* result of the mutation.                                                 *)
blockResponse(out) == IF out.dry_run THEN "plan" ELSE "result"

(* One invocation of a block command, made when no other is in progress,   *)
(* with a store that saves: executeMutationWithIdempotency lines 64-222    *)
(* around the run of the command.                                          *)
BlockCommand(base, dryRun) ==
  /\ LET commandName == blockCommandName(base, dryRun)
         requestShape == blockRequestShape(dryRun)
         requestHash == hashObject(<<requestShape>>)
         idempotencyKey == buildInternalIdempotencyKey(commandName, requestShape, now)
         r == reserve(file, now, idempotencyKey, commandName, requestHash)
         ran == blockRun(base, dryRun)
         call == [InitScan EXCEPT !.op = base, !.dryRun = dryRun]
     IN IF r.kind = "execute"
        THEN /\ file' = complete(r.file, now, idempotencyKey, commandName, requestHash,
                                 blockResponse(ran)).file
             /\ scan' = [call EXCEPT !.out = ran]
        ELSE IF r.kind = "replay"
        THEN /\ file' = r.file
             /\ scan' = [call EXCEPT
                           !.out = [NoScanOut EXCEPT !.kind = "replay",
                                                     !.dry_run = (r.response = "plan")]]
        ELSE /\ file' = r.file
             /\ scan' = [call EXCEPT
                           !.out = SelectThrew(IF r.kind = "conflict" THEN KeyConflictError
                                               ELSE IF r.kind = "pending" THEN InProgressError
                                               ELSE r.error)]
  /\ UNCHANGED <<now, last, pc, loc, calls, hist, lockFile, lk, notion, rbr>>

NextDryRun ==
  \/ \E base \in BlockCommands, dryRun \in BOOLEAN : BlockCommand(base, dryRun)
  \/ Tick(MaxTime, 1)

SpecDryRun == Init /\ [][NextDryRun]_vars

-----------------------------------------------------------------------------
(* Request shapes as JSON values, and the key built from them              *)
(* (idempotency/store.ts, buildInternalIdempotencyKey; utils/json.js,      *)
(* hashObject).  A JSON value is a node: a scalar with its text, or an     *)
(* object with its fields in the order they were written.                  *)

Leaf(text) == [leaf |-> TRUE, text |-> text, fields |-> <<>>]
Object(fields) == [leaf |-> FALSE, text |-> "", fields |-> fields]

(* The objects whose fields are some of keys, each once, in any order,     *)
(* with values among values.                                               *)
ObjectsOver(keys, values) ==
  {Object(fields) :
     fields \in {s \in UNION {[1..n -> [key : keys, value : values]] :
                                n \in 1..Cardinality(keys)} :
                   \A i, j \in DOMAIN s : i # j => s[i].key # s[j].key}}

Scalars == {Leaf("1"), Leaf("2")}
InnerObjects == ObjectsOver({"c", "d"}, Scalars)
RequestShapes == ObjectsOver({"a", "b"}, Scalars \cup InnerObjects)

(* The order Array.prototype.sort gives the keys of the model. *)
KeyOrder == <<"a", "b", "c", "commandName", "d", "requestShape">>
KeyRank(key) == CHOOSE i \in 1..Len(KeyOrder) : KeyOrder[i] = key

(* The fields in the order of their keys. *)
SortByKey(fields) ==
  [k \in 1..Len(fields) |->
     fields[CHOOSE i \in 1..Len(fields) :
              Cardinality({j \in 1..Len(fields) :
                             KeyRank(fields[j].key) < KeyRank(fields[i].key)}) = k - 1]]

(* The canonical form of a value: the keys of every object sorted, at      *)
(* every depth.                                                            *)
RECURSIVE canonicalize(_)
canonicalize(node) ==
  IF node.leaf THEN node
  ELSE Object(SortByKey([i \in 1..Len(node.fields) |->
                           [key |-> node.fields[i].key,
                            value |-> canonicalize(node.fields[i].value)]]))

(* JSON.stringify: the fields of an object in the order it holds them. *)
RECURSIVE stringify(_)
stringify(node) ==
  IF node.leaf THEN node.text
  ELSE "{" \o Join([i \in 1..Len(node.fields) |->
                      node.fields[i].key \o ":" \o stringify(node.fields[i].value)], ",")
           \o "}"

(* hashObject on a JSON value: the digest of the canonical text.  The      *)
(* digest is taken to tell all texts apart, so that two values share a     *)
(* digest only when their canonical texts are the same.                    *)
hashCanonical(node) == stringify(canonicalize(node))

(* A key built from the text of the shape as it was written. *)
buildInternalIdempotencyKeyOf_AsWritten(commandName, requestShape, t) ==
  <<commandName, t \div BUCKET_MS,
    stringify(Object(<<[key |-> "commandName", value |-> Leaf(commandName)],
                       [key |-> "requestShape", value |-> requestShape]>>))>>

(* buildInternalIdempotencyKey on a request shape given as a JSON value. *)
buildInternalIdempotencyKeyOf(commandName, requestShape, t) ==
  <<commandName, t \div BUCKET_MS,
    hashCanonical(Object(<<[key |-> "commandName", value |-> Leaf(commandName)],
                           [key |-> "requestShape", value |-> requestShape]>>))>>

(* The value the object holds under key. *)
ValueOf(node, key) ==
  node.fields[CHOOSE i \in 1..Len(node.fields) : node.fields[i].key = key].value

KeysOf(node) == {node.fields[i].key : i \in 1..Len(node.fields)}

(* Two values that differ at most in the order of the keys of their        *)
(* objects, at any depth.                                                  *)
RECURSIVE SameUpToOrder(_, _)
SameUpToOrder(a, b) ==
  IF a.leaf \/ b.leaf THEN a = b
  ELSE /\ KeysOf(a) = KeysOf(b)
       /\ \A key \in KeysOf(a) : SameUpToOrder(ValueOf(a, key), ValueOf(b, key))

(* Two values with the same keys in their objects, at every depth. *)
RECURSIVE SameKeys(_, _)
SameKeys(a, b) ==
  IF a.leaf \/ b.leaf THEN a.leaf /\ b.leaf
  ELSE /\ KeysOf(a) = KeysOf(b)
       /\ \A key \in KeysOf(a) : SameKeys(ValueOf(a, key), ValueOf(b, key))

(* The key of a request shape and of a shape with the same keys, written   *)
(* in any order, both built now.                                           *)
BuildKeys(requestShape, reordered) ==
  /\ scan.op = "none"
  /\ scan' = [op |-> "key", requestShape |-> requestShape, reordered |-> reordered,
              at |-> now,
              key |-> buildInternalIdempotencyKeyOf(CommandName, requestShape, now),
              reorderedKey |-> buildInternalIdempotencyKeyOf(CommandName, reordered, now)]
  /\ UNCHANGED scanFrame

ShapesToBuild == IF scan.op = "none" THEN RequestShapes ELSE {}

NextKey ==
  \/ \E requestShape \in ShapesToBuild :
       \E reordered \in {other \in RequestShapes : SameKeys(other, requestShape)} :
         BuildKeys(requestShape, reordered)
  \/ Tick(MaxTime, 1)

SpecKey == Init /\ [][NextKey]_vars




-----------------------------------------------------------------------------
(* Properties of the store operations (SpecStore).                         *)
(* A step that leaves the clock alone and changes some variable is a call  *)
(* of the operation last'.op on the key last'.key with hash                *)
(* last'.inputHash; `file` is the persisted map before it, file' after.    *)

CalledKey == compositeKey(last'.key, CommandName)

IsCallOf(op) == now' = now /\ last'.op = op

OlderThanTtl(entry, t) == t - entry.createdAt > 12

Unexpired(f, t) == [k \in {x \in DOMAIN f : ~OlderThanTtl(f[x], t)} |-> f[k]]

PendingEntry(h, t) ==
  [inputHash |-> h, responseJson |-> PENDING_RESPONSE_JSON, createdAt |-> t]

ReleaseThenReserveExecutes ==
  ( /\ last.op = "release" /\ last.was = "pending"
    /\ compositeKey(last.key, CommandName) \notin DOMAIN file
    /\ last'.op = "reserve" /\ last'.key = last.key /\ last'.inputHash = last.inputHash )
  => last'.kind = "execute"

(* C6 as claimed: release deletes the entry when it is pending with the    *)
(* caller's hash and otherwise leaves the persisted store exactly as it    *)
(* was; after a release that deleted the entry the next reserve with the   *)
(* same key and hash returns execute.                                      *)
C6_ReleaseOriginal ==
  [][ /\ IsCallOf("release") =>
           IF /\ CalledKey \in DOMAIN file
              /\ file[CalledKey].responseJson = PENDING_RESPONSE_JSON
              /\ file[CalledKey].inputHash = last'.inputHash
           THEN CalledKey \notin DOMAIN file'
           ELSE file' = file
      /\ ReleaseThenReserveExecutes ]_vars

(* C6 amended: release first drops the entries older than the TTL, then    *)
(* deletes the entry of its key when that entry is pending with the        *)
(* caller's hash; every other unexpired entry is left as it was and none   *)
(* is added.  After a release that deleted the entry the next reserve with *)
(* the same key and hash returns execute.                                  *)
C6_Release ==
  [][ /\ IsCallOf("release") =>
           LET live == Unexpired(file, now)
           IN IF /\ CalledKey \in DOMAIN live
                 /\ live[CalledKey].responseJson = PENDING_RESPONSE_JSON
                 /\ live[CalledKey].inputHash = last'.inputHash
              THEN file' = [k \in DOMAIN live \ {CalledKey} |-> live[k]]
              ELSE file' = live
      /\ ReleaseThenReserveExecutes ]_vars

C6_Witness ==
  /\ last.op = "release" /\ last.was = "pending" /\ ~last.wasExpired
  /\ compositeKey(last.key, CommandName) \notin DOMAIN file
  /\ DOMAIN file # {}

(* C7: an entry older than the TTL, pending or terminal and whatever its   *)
(* hash, is invisible although the file still holds it: lookup of its key  *)
(* returns miss, reserve returns execute and stores a fresh pending entry. *)
C7_ExpiredInvisible ==
  [][ ( /\ now' = now
        /\ CalledKey \in DOMAIN file
        /\ OlderThanTtl(file[CalledKey], now) )
      => /\ last'.op = "lookup" => last'.kind = "miss"
         /\ last'.op = "reserve" =>
               /\ last'.kind = "execute"
               /\ CalledKey \in DOMAIN file'
               /\ file'[CalledKey] = PendingEntry(last'.inputHash, now) ]_vars

C7_Witness ==
  /\ last.op = "lookup" /\ last.wasExpired /\ last.was = "terminal"
  /\ last.kind = "miss"

C9_CompleteMismatchOriginal ==
  [][ ( /\ IsCallOf("complete")
        /\ CalledKey \in DOMAIN file
        /\ file[CalledKey].inputHash # last'.inputHash )
      => /\ last'.kind = "throw" /\ last'.error.code = "internal_error"
         /\ CalledKey \in DOMAIN file'
         /\ file'[CalledKey] = file[CalledKey] ]_vars

(* C9 amended: complete with a hash that differs from the hash of the      *)
(* unexpired entry stored for the key throws internal_error and leaves     *)
(* that entry (hash, outcome, timestamp) unchanged; an entry older than    *)
(* the TTL is pruned first, and complete then stores its outcome under the *)
(* new hash without throwing.                                              *)
C9_CompleteMismatch ==
  [][ ( /\ IsCallOf("complete")
        /\ CalledKey \in DOMAIN file
        /\ file[CalledKey].inputHash # last'.inputHash )
      => IF ~OlderThanTtl(file[CalledKey], now)
         THEN /\ last'.kind = "throw" /\ last'.error.code = "internal_error"
              /\ CalledKey \in DOMAIN file'
              /\ file'[CalledKey] = file[CalledKey]
         ELSE /\ last'.kind = "ok"
              /\ CalledKey \in DOMAIN file'
              /\ file'[CalledKey].inputHash = last'.inputHash
              /\ file'[CalledKey].createdAt = now
              /\ file'[CalledKey].responseJson # PENDING_RESPONSE_JSON ]_vars

C9_Witness ==
  /\ last.op = "complete" /\ last.kind = "throw" /\ ~last.wasExpired
  /\ last.error = FinalizeError
  /\ compositeKey(last.key, CommandName) \in DOMAIN file
  /\ file[compositeKey(last.key, CommandName)].inputHash # last.inputHash

-----------------------------------------------------------------------------
(* Properties of executeMutationWithIdempotency (Spec).                    *)

Running(p) == pc[p] \in {"run", "recover"}

CallKey(p) == compositeKey(loc[p].idempotencyKey, CommandName)

(* C3: a caller is inside run() only after one of its own reserve calls    *)
(* returned execute (never after a re-reserve that returned pending), so   *)
(* no two callers run the mutation for the same composite key at once.     *)
C3_RunOnlyAfterExecute ==
  /\ \A p \in Procs : Running(p) => loc[p].lookup = "execute"
  /\ \A p, q \in Procs :
       (p # q /\ Running(p) /\ Running(q)) => CallKey(p) # CallKey(q)

(* The unexpired entry the file holds for the key of p's call, if any. *)
HasLive(p) ==
  /\ CallKey(p) \in DOMAIN file
  /\ ~OlderThanTtl(file[CallKey(p)], now)

LiveMatch(p) == HasLive(p) /\ file[CallKey(p)].inputHash = loc[p].requestHash

LivePending(p) == LiveMatch(p) /\ file[CallKey(p)].responseJson = PENDING_RESPONSE_JSON

LiveTerminal(p) == LiveMatch(p) /\ file[CallKey(p)].responseJson # PENDING_RESPONSE_JSON

(* p reads the store in this step of the polling loop: the lookup after a  *)
(* sleep, or the reserve at the deadline.                                  *)
PollRead(p) ==
  /\ pc'[p] # pc[p]
  /\ \/ pc[p] = "sleep"
     \/ pc[p] = "poll" /\ ~(now < loc[p].deadline)

(* C5: a call whose reserve returned pending gets a deadline 15 s (1 tick) *)
(* ahead that never moves; it goes to sleep only before the deadline and   *)
(* at the deadline its next step leaves the loop; a read of the store that *)
(* finds the entry terminal makes the call return the stored outcome, and  *)
(* the reserve at the deadline that finds it still pending makes the call  *)
(* throw the retryable "already in progress" error; run is invoked in      *)
(* neither case and the entry is left alone.                               *)
C5_PollingBounded ==
  [][ \A p \in Procs :
        /\ (pc[p] \in {"idle", "done"} /\ pc'[p] = "poll") =>
              loc'[p].deadline = now + 1
        /\ (pc[p] \in {"poll", "sleep"} /\ pc'[p] \in {"poll", "sleep"}) =>
              /\ loc'[p].deadline = loc[p].deadline
              /\ loc'[p].runs = 0
        /\ (pc[p] = "poll" /\ pc'[p] = "sleep") => now < loc[p].deadline
        /\ (pc[p] = "poll" /\ ~(now < loc[p].deadline) /\ pc'[p] # pc[p]) =>
              pc'[p] \in {"done", "run"}
        /\ (PollRead(p) /\ LiveTerminal(p)) =>
              /\ pc'[p] = "done"
              /\ loc'[p].result.state = "returned"
              /\ <<loc'[p].result.value>> = file[CallKey(p)].responseJson
              /\ loc'[p].runs = 0
              /\ file' = file
        /\ (PollRead(p) /\ pc[p] = "poll" /\ LivePending(p)) =>
              /\ pc'[p] = "done"
              /\ loc'[p].result.state = "threw"
              /\ loc'[p].result.error.code = "retryable_upstream"
              /\ loc'[p].result.error.retryable
              /\ loc'[p].result.error.message =
                   "A matching mutation is already in progress. Retry this request shortly."
              /\ loc'[p].runs = 0
              /\ file' = file ]_vars

C5_Witness ==
  \E p \in Procs :
    /\ pc[p] = "done"
    /\ loc[p].lookup = "pending"
    /\ loc[p].result.error = InProgressError
    /\ loc[p].runs = 0
    /\ LivePending(p)

(* C10: when a reserve or a polling lookup of a call reports conflict, the *)
(* call is over in that step: it throws the non-retryable                  *)
(* idempotency_key_conflict error, has invoked neither run nor recover,    *)
(* has released nothing, and the entry of the other request is as it was.  *)
C10_ConflictFailsFast ==
  [][ \A p \in Procs :
        (loc'[p] # loc[p] /\ loc'[p].lookup = "conflict") =>
          LET key == compositeKey(loc'[p].idempotencyKey, CommandName)
          IN /\ pc'[p] = "done"
             /\ loc'[p].result.state = "threw"
             /\ loc'[p].result.error.code = "idempotency_key_conflict"
             /\ ~loc'[p].result.error.retryable
             /\ loc'[p].runs = 0 /\ loc'[p].recovers = 0
             /\ ~loc'[p].released /\ ~loc'[p].ownsReservation
             /\ key \in DOMAIN file /\ key \in DOMAIN file'
             /\ file[key].inputHash # loc'[p].requestHash
             /\ file'[key] = file[key] ]_vars

C10_Witness ==
  \E p \in Procs :
    /\ pc[p] = "done"
    /\ loc[p].lookup = "conflict"
    /\ loc[p].result.error = KeyConflictError
    /\ CallKey(p) \in DOMAIN file
    /\ file[CallKey(p)].inputHash # loc[p].requestHash

-----------------------------------------------------------------------------
(* Concurrent identical calls whose run succeeds (SpecSame).               *)

-----------------------------------------------------------------------------
(* Calls made one after the other (SpecSeq).  hist.prev is the call before *)
(* the latest one, loc[hist.cur] the latest one.                           *)

SameRequestSameBucket ==
  /\ hist.prev.requestShape # Null
  /\ hist.prev.requestShape = loc[hist.cur].requestShape
  /\ hist.prevAt \div 8 = hist.at \div 8

-----------------------------------------------------------------------------
(* Properties of reserve under the lock file protocol (SpecLock).          *)

Executed == {p \in Procs : lk[p].kind = "execute"}

Returned2 == {p \in Procs : lk[p].pc = "done" /\ lk[p].kind # "busy"}

(* C2: of the processes that call reserve concurrently with the same key,  *)
(* command and hash on a key without entry, at most one gets execute;      *)
(* every other call that returns gets pending or replay, and once all      *)
(* calls are over exactly one of those that returned got execute.          *)
C2_ExactlyOneExecute ==
  /\ Cardinality(Executed) <= 1
  /\ \A p \in Returned2 \ Executed : lk[p].kind \in {"pending", "replay"}
  /\ ((\A p \in Procs : lk[p].pc = "done") /\ Returned2 # {}) =>
        Cardinality(Executed) = 1

-----------------------------------------------------------------------------
(* Failure handling of executeMutationWithIdempotency (Spec, SpecRetry).   *)

(* complete as p's call would make it now with the given response fails:   *)
(* the write fails (ioFail) or complete throws.                            *)
CompleteFails(p, response, ioFail) ==
  \/ ioFail
  \/ complete(file, now, loc[p].idempotencyKey, CommandName, loc[p].requestHash,
              response).kind = "throw"

(* C11: when run resolves with a response and complete then fails, the     *)
(* call returns that response, and its one audit event has ok = true and   *)
(* idempotency_persist_degraded = true.                                    *)
C11_PersistDegraded ==
  [][ \A p \in Procs :
        (pc[p] = "run" /\ pc'[p] # "run") =>
          \A response \in Responses, ioFail \in BOOLEAN :
            (RunOk(p, response, ioFail) /\ CompleteFails(p, response, ioFail)) =>
              /\ pc'[p] = "done"
              /\ loc'[p].result = [state |-> "returned", value |-> response,
                                   error |-> NoError]
              /\ loc'[p].runs = 1
              /\ loc'[p].audit.n = 1
              /\ loc'[p].audit.ok
              /\ loc'[p].audit.idempotency_persist_degraded
              /\ ~loc'[p].audit.outcome_uncertain ]_vars

C11_Witness ==
  \E p \in Procs :
    /\ pc[p] = "done"
    /\ loc[p].runs = 1 /\ loc[p].recovers = 0
    /\ loc[p].result.state = "returned"
    /\ loc[p].audit.ok /\ loc[p].audit.idempotency_persist_degraded
    /\ CallKey(p) \in DOMAIN file
    /\ file[CallKey(p)].responseJson = PENDING_RESPONSE_JSON

(* The errors the spec calls ambiguous. *)
Ambiguous(error) ==
  \/ error.status = 429
  \/ error.status >= 500
  \/ error.code = "internal_error"
  \/ error.cli /\ error.code = "retryable_upstream"

Stored(hash, response, t) ==
  [inputHash |-> hash, responseJson |-> <<response>>, createdAt |-> t]

ReservationReleased(p) ==
  \/ CallKey(p) \notin DOMAIN file'
  \/ file'[CallKey(p)].responseJson # PENDING_RESPONSE_JSON

(* run rejected with an ambiguous error and its outcome stays unconfirmed  *)
(* in this step: no recover callback, or recover resolved with null or     *)
(* rejected.                                                               *)
Unconfirmed(p) ==
  \/ \E error \in RunErrors, ioFail \in BOOLEAN :
        RunFail(p, error, FALSE, ioFail) /\ Ambiguous(error)
  \/ \E ioFail \in BOOLEAN : RecoverNone(p, ioFail)

(* C13: when run rejects with an ambiguous error and recover is absent,    *)
(* resolves with null or rejects, the call releases its reservation and    *)
(* throws the retryable_upstream error "Mutation outcome could not be      *)
(* confirmed. Re-read before retrying."; it never returns a value and      *)
(* never throws the error run rejected with.                               *)
C13_UnconfirmedOutcome ==
  [][ \A p \in Procs :
        Unconfirmed(p) =>
          /\ pc'[p] = "done"
          /\ loc'[p].result.state = "threw"
          /\ loc'[p].result.error.cli
          /\ loc'[p].result.error.code = "retryable_upstream"
          /\ loc'[p].result.error.retryable
          /\ loc'[p].result.error.message =
               "Mutation outcome could not be confirmed. Re-read before retrying."
          /\ ReservationReleased(p) ]_vars

(* C14: when run rejects with an error that is not ambiguous, the call     *)
(* throws that same error, has not invoked recover, and has released its   *)
(* reservation, whether or not the release or the audit append fails.      *)
C14_NonAmbiguousRethrow ==
  [][ \A p \in Procs, error \in RunErrors, hasRecover \in BOOLEAN, ioFail \in BOOLEAN :
        (RunFail(p, error, hasRecover, ioFail) /\ ~Ambiguous(error)) =>
          /\ pc'[p] = "done"
          /\ loc'[p].result = [state |-> "threw", value |-> Null, error |-> error]
          /\ loc'[p].recovers = 0
          /\ ReservationReleased(p) ]_vars

(* C15: every call that has terminated appended exactly one audit record,  *)
(* and the record's ok flag is true exactly when the call returned a       *)
(* value.                                                                  *)
C15_OneAuditPerCall ==
  \A p \in Procs :
    pc[p] = "done" =>
      /\ loc[p].audit.n = 1
      /\ (loc[p].audit.ok <=> (loc[p].result.state = "returned"))

-----------------------------------------------------------------------------
(* The lock file protocol of the store (SpecLock).                         *)

(* The processes inside the read-modify-write section of a store           *)
(* operation: the lock is acquired and the function passed to withLock     *)
(* has not returned.                                                       *)
InCritical == {p \in Procs : lk[p].pc \in {"load", "store"}}

(* C16: at no time are two processes both inside the read-modify-write     *)
(* section of a store operation.                                           *)
C16_MutualExclusion == Cardinality(InCritical) <= 1

Waiting(p) == lk[p].pc \in {"try", "stat", "unlink"}

-----------------------------------------------------------------------------
(* Properties of replaceBlockRange (SpecRange).                            *)

(* The ids and edit times of a list of blocks, in order. *)
SiblingState(blocks) ==
  [i \in 1..Len(blocks) |-> <<blocks[i].id, blocks[i].last_edited_time>>]

SiblingIds(blocks) == [i \in 1..Len(blocks) |-> blocks[i].id]

Issued(op) == {i \in 1..Len(notion.issued) : notion.issued[i].op = op}

(* C18: in a call that is not a dry run, when the siblings listed by the   *)
(* re-read differ from those of the planning scan (one added, removed,     *)
(* moved, or with another last_edited_time), the call throws conflict, and *)
(* a call that threw conflict has issued no append and no delete call.     *)
C18_ChangedSiblingsConflict ==
  /\ [][ (Reread(FALSE) /\ SiblingState(rbr.siblings) # SiblingState(notion.children)) =>
            /\ rbr'.pc = "done"
            /\ rbr'.result.state = "threw"
            /\ rbr'.result.error = ConflictRangeError
            /\ notion'.issued = <<>> ]_vars
  /\ [](rbr.result.error.code = "conflict" => notion.issued = <<>>)

(* The call threw conflict because another client edited a sibling: the    *)
(* ids and their order are those of the planning scan.                     *)
C18_Witness ==
  /\ rbr.pc = "done"
  /\ rbr.result.state = "threw"
  /\ rbr.result.error.code = "conflict"
  /\ notion.edits = 1
  /\ SiblingIds(rbr.siblings) = SiblingIds(notion.children)
  /\ SiblingState(rbr.siblings) # SiblingState(notion.children)
  /\ notion.issued = <<>>

(* C19: no append call is issued after a delete call; and when an append   *)
(* call failed, no delete call has been issued and every block of the      *)
(* range is still a child of the parent, unless another client removed it. *)
C19_InsertBeforeDelete ==
  /\ \A i \in Issued("delete"), j \in Issued("append") : j < i
  /\ (\E j \in Issued("append") : ~notion.issued[j].ok) =>
        /\ Issued("delete") = {}
        /\ \A i \in 1..Len(rbr.blocksToDelete) :
              \/ IndexOf(notion.children, rbr.blocksToDelete[i].id) > 0
              \/ rbr.blocksToDelete[i].id \in notion.trashed

(* The second append call of a call with a range of two blocks or more     *)
(* failed after the first had succeeded.                                   *)
C19_Witness ==
  /\ rbr.pc = "done"
  /\ rbr.result.state = "threw"
  /\ rbr.result.stage = "insert"
  /\ Len(rbr.blocksToDelete) >= 2
  /\ Len(notion.issued) = 2
  /\ notion.issued[1].ok
  /\ ~notion.issued[2].ok
  /\ notion.trashed = {}

(* The ids whose deleteBlock call succeeded, in the order of the calls. *)
ConfirmedDeleted ==
  SelectSeq(notion.issued, LAMBDA call : call.op = "delete" /\ call.ok)

(* C20: when a delete call fails after at least one block of the range was *)
(* deleted, the error the call throws carries the ids of the blocks whose  *)
(* deletion succeeded.                                                     *)
C20_PartialDeletionReported ==
  (/\ rbr.pc = "done"
   /\ rbr.result.state = "threw"
   /\ \E i \in Issued("delete") : ~notion.issued[i].ok
   /\ Len(ConfirmedDeleted) > 0) =>
     /\ rbr.result.has_deleted_ids
     /\ rbr.result.deleted_ids = SiblingIds(ConfirmedDeleted)

-----------------------------------------------------------------------------
(* Claims about scanning, selecting and planning a range.                  *)

(* What the start and the end selector of the latest replace-range request *)
(* resolve to, each taken alone on the blocks of the tree.                 *)
RangeStart ==
  resolveSelectorStrict(flattenScopeBlocks(scan.tree, ScopeId, scan.maxBlocks).blocks,
                        scan.selector, "start-selector-json")

RangeEnd ==
  resolveSelectorStrict(flattenScopeBlocks(scan.tree, ScopeId, scan.maxBlocks).blocks,
                        scan.endSelector, "end-selector-json")

BothResolve ==
  scan.op = "replace_range" /\ RangeStart.kind = "ok" /\ RangeEnd.kind = "ok"

CrossParent == BothResolve /\ RangeStart.selected.parent_id # RangeEnd.selected.parent_id

(* C21: whenever the start and the end selector of a replace-range request *)
(* resolve to blocks with different parents, replaceBlockRange throws      *)
(* invalid_input and has issued no insertion and no deletion.              *)
C21_CrossParentRejected ==
  CrossParent =>
    /\ scan.out.kind = "throw"
    /\ scan.out.error.code = "invalid_input"
    /\ scan.out.issued = <<>>

C21_Witness ==
  /\ CrossParent
  /\ ~scan.dryRun
  /\ scan.out.error = CrossParentError

SameParent == BothResolve /\ RangeStart.selected.parent_id = RangeEnd.selected.parent_id

(* The sibling indices of the two endpoints after the adjustment for an    *)
(* exclusive endpoint.                                                     *)
AdjustedStart ==
  IF scan.inclusiveStart THEN RangeStart.selected.sibling_index
  ELSE RangeStart.selected.sibling_index + 1

AdjustedEnd ==
  IF scan.inclusiveEnd THEN RangeEnd.selected.sibling_index
  ELSE RangeEnd.selected.sibling_index - 1

(* C22: whenever the two selectors resolve to siblings and the adjusted    *)
(* start index exceeds the adjusted end index, replaceBlockRange throws    *)
(* invalid_input and has issued no insertion and no deletion.              *)
C22_AdjustedOrderRejected ==
  (SameParent /\ AdjustedStart > AdjustedEnd) =>
    /\ scan.out.kind = "throw"
    /\ scan.out.error.code = "invalid_input"
    /\ scan.out.issued = <<>>

(* The siblings under the parent of the start block, as the service lists  *)
(* them.                                                                   *)
RangeSiblings == listDirectChildren(scan.tree, RangeStart.selected.parent_id)

Accepted == scan.op = "replace_range" /\ scan.out.kind = "ok"

(* C23: for an accepted range the ids to delete are those of the siblings  *)
(* at positions AdjustedStart..AdjustedEnd, in sibling order, and the      *)
(* insertion position is the start of the parent when AdjustedStart is 0   *)
(* and otherwise after the sibling just before AdjustedStart.              *)
C23_SliceAndAnchor ==
  Accepted =>
    /\ scan.out.delete_ids =
         [k \in 1..(AdjustedEnd - AdjustedStart + 1) |->
            RangeSiblings[AdjustedStart + k].id]
    /\ scan.out.insert_position =
         IF AdjustedStart = 0
         THEN [type |-> "start", id |-> Null]
         ELSE [type |-> "after_block", id |-> RangeSiblings[AdjustedStart].id]

C23_Witness ==
  /\ Accepted
  /\ ~scan.dryRun
  /\ AdjustedStart > 0
  /\ Len(scan.out.delete_ids) >= 2
  /\ Len(scan.out.issued) = 1 + Len(scan.out.delete_ids)

(* The latest invocation was a block command. *)
RanBlockCommand == scan.op \in BlockCommands

(* The store holds the plan of a dry run of the command of the latest      *)
(* invocation, made in the time bucket of now.                             *)
DryRunStored ==
  LET commandName == scan.op \o ".dry_run"
      key == compositeKey(buildInternalIdempotencyKey(commandName, "s2", now), commandName)
  IN /\ key \in DOMAIN file
     /\ file[key].responseJson = JsonStringify("plan")

(* C24: a block command run with --dry-run returns the plan and issues no  *)
(* insertion and no deletion; one run without it is never answered with a  *)
(* plan and is never refused because of what a dry run stored: it          *)
(* executes, or replays the result of a real run.                          *)
C24_DryRunIsolated ==
  RanBlockCommand =>
    /\ scan.dryRun => (scan.out.kind \in {"ok", "replay"} /\ scan.out.dry_run
                         /\ scan.out.issued = <<>>)
    /\ ~scan.dryRun => (scan.out.kind \in {"ok", "replay"} /\ ~scan.out.dry_run)
    /\ (~scan.dryRun /\ scan.out.kind = "ok") => scan.out.issued # <<>>

C24_Witness ==
  /\ RanBlockCommand
  /\ scan.op = "blocks.replace_range"
  /\ ~scan.dryRun
  /\ DryRunStored
  /\ scan.out.kind = "ok"
  /\ Len(scan.out.issued) = 3

(* The blocks of the scanned tree that match the selector of the latest    *)
(* call, in the order of the scan.                                         *)
ScanMatches ==
  FilterMatches(flattenScopeBlocks(scan.tree, ScopeId, MaxTreeBlocks).blocks,
                scan.selector)

EndMatches ==
  FilterMatches(flattenScopeBlocks(scan.tree, ScopeId, MaxTreeBlocks).blocks,
                scan.endSelector)

(* The match nth counts from the end named by from. *)
NthMatch(matches, selector) ==
  IF selector.from = "start" THEN matches[selector.nth]
  ELSE matches[Len(matches) - selector.nth + 1]

(* A selection or strict resolution whose scan stayed within its limit,    *)
(* with nth given and at least one match.                                  *)
NthCase ==
  /\ scan.op \in {"select", "resolve"}
  /\ scan.maxBlocks >= MaxTreeBlocks
  /\ scan.selector.nth # NoNth
  /\ Len(ScanMatches) > 0

(* C25: with nth present, selectBlocks and the strict resolution select    *)
(* the nth match counted from `from`, and fail with not_found when nth is  *)
(* greater than the number of matches; the endpoints of an accepted range  *)
(* are chosen the same way.                                                *)
C25_NthFromEitherEnd ==
  /\ NthCase =>
       IF scan.selector.nth > Len(ScanMatches)
       THEN scan.out.kind = "throw" /\ scan.out.error.code = "not_found"
       ELSE scan.out.kind = "ok" /\ scan.out.selected = NthMatch(ScanMatches, scan.selector)
  /\ Accepted =>
       /\ scan.out.start = NthMatch(ScanMatches, scan.selector)
       /\ scan.out.end = NthMatch(EndMatches, scan.endSelector)

C25_Witness ==
  /\ NthCase
  /\ scan.op = "resolve"
  /\ scan.selector.from = "end"
  /\ scan.selector.nth = 1
  /\ Len(ScanMatches) = 3
  /\ scan.out.selected = ScanMatches[3]

(* A selection or strict resolution whose scan stayed within its limit,    *)
(* with nth absent and more than one match.                                *)
AmbiguousCase ==
  /\ scan.op \in {"select", "resolve"}
  /\ scan.maxBlocks >= MaxTreeBlocks
  /\ scan.selector.nth = NoNth
  /\ Len(ScanMatches) > 1

(* C26: with nth absent and more than one match, selectBlocks returns no   *)
(* selected block, ambiguous true and all the matches, while the strict    *)
(* resolution throws a conflict whose message names the number of matches  *)
(* and selects none of them.                                               *)
C26_AmbiguityTwoWays ==
  AmbiguousCase =>
    IF scan.op = "select"
    THEN /\ scan.out.kind = "ok"
         /\ scan.out.selected = NoBlock
         /\ scan.out.ambiguous
         /\ scan.out.matches = ScanMatches
         /\ scan.out.match_count = Len(ScanMatches)
    ELSE /\ scan.out.kind = "throw"
         /\ scan.out.error.code = "conflict"
         /\ includes(scan.out.error.message,
                     "matched " \o ToString(Len(ScanMatches)) \o " blocks")
         /\ scan.out.selected = NoBlock

C26_Witness ==
  /\ AmbiguousCase
  /\ scan.op = "select"
  /\ Len(scan.out.matches) = 3
  /\ scan.out.ambiguous

(* A block satisfies every predicate the selector provides: the type and   *)
(* the parent id are equal, the text holds the needle whatever the case    *)
(* of the letters.                                                         *)
Satisfies(block, selector) ==
  /\ selector.where.type # Undefined => block.type = selector.where.type
  /\ selector.where.parent_id # Undefined => block.parent_id = selector.where.parent_id
  /\ selector.where.text_contains # Undefined =>
       includes(toLowerCase(block.text), toLowerCase(selector.where.text_contains))

Satisfying ==
  SelectSeq(flattenScopeBlocks(scan.tree, ScopeId, MaxTreeBlocks).blocks,
            LAMBDA block : Satisfies(block, scan.selector))

(* C27: the matches selectBlocks returns are the scanned blocks that       *)
(* satisfy all the predicates the selector provides, in the order of the   *)
(* scan, and it reports not_found when no block satisfies them.            *)
C27_MatchesAllPredicates ==
  (scan.op = "select" /\ scan.maxBlocks >= MaxTreeBlocks) =>
    IF Len(Satisfying) = 0
    THEN scan.out.kind = "throw" /\ scan.out.error.code = "not_found"
    ELSE scan.out.kind = "ok" => scan.out.matches = Satisfying

(* The number of blocks under the scope of the scanned tree: every block  *)
(* of a tree is a descendant of the scope.                                 *)
TreeSize == Cardinality(DOMAIN scan.tree.parent)

(* C28: flattenScopeBlocks throws the scan-limit error exactly when the    *)
(* tree under the scope holds more than maxBlocks blocks, and otherwise    *)
(* returns all its blocks, never more than maxBlocks.                      *)
C28_ScanBounded ==
  scan.op = "flatten" =>
    IF TreeSize > scan.maxBlocks
    THEN scan.out.kind = "throw" /\ scan.out.error = ScanLimitError(scan.maxBlocks)
    ELSE /\ scan.out.kind = "ok"
         /\ Len(scan.out.blocks) = TreeSize
         /\ Len(scan.out.blocks) <= scan.maxBlocks

C28_Witness ==
  /\ scan.op = "flatten"
  /\ scan.maxBlocks = TreeSize
  /\ scan.out.kind = "ok"
  /\ Len(scan.out.blocks) = scan.maxBlocks
  /\ \E i \in 1..MaxTreeBlocks : scan.tree.parent[i] # 0

(* Block i of the tree is a descendant of block a. *)
RECURSIVE Under(_, _, _)
Under(tree, i, a) ==
  IF i = 0 THEN FALSE ELSE tree.parent[i] = a \/ Under(tree, tree.parent[i], a)

Flattened == scan.op = "flatten" /\ scan.out.kind = "ok"

(* The number in the tree of the k-th block of the list. *)
NumberAt(k) == BlockNumber(scan.out.blocks[k].id)

PositionsAreIndices ==
  \A k \in 1..Len(scan.out.blocks) : scan.out.blocks[k].order_index = k - 1

(* C29 as stated: every order_index is the position in the list, and the   *)
(* descendants of a block follow it directly, before its next sibling.     *)
C29_PreOrder ==
  Flattened =>
    /\ PositionsAreIndices
    /\ \A k \in 1..Len(scan.out.blocks) :
         LET descendants == {i \in 1..MaxTreeBlocks : Under(scan.tree, i, NumberAt(k))}
         IN \A j \in (k + 1)..(k + Cardinality(descendants)) : NumberAt(j) \in descendants

(* C29 amended: every order_index is the position in the list; the         *)
(* children of one parent stand together in sibling order, after their     *)
(* parent and all the siblings of their parent; and the descendants of a   *)
(* block all come before the descendants of its later siblings.            *)
C29_SiblingsThenSubtrees ==
  Flattened =>
    /\ PositionsAreIndices
    /\ \A j, k \in 1..Len(scan.out.blocks) :
         (j < k /\ scan.out.blocks[j].parent_id = scan.out.blocks[k].parent_id) =>
           /\ scan.out.blocks[j].sibling_index < scan.out.blocks[k].sibling_index
           /\ \A m \in j..k : scan.out.blocks[m].parent_id = scan.out.blocks[j].parent_id
    /\ \A j, k \in 1..Len(scan.out.blocks) :
         (scan.out.blocks[j].id = scan.out.blocks[k].parent_id
            \/ \E m \in 1..Len(scan.out.blocks) :
                 /\ scan.out.blocks[m].id = scan.out.blocks[k].parent_id
                 /\ scan.out.blocks[m].parent_id = scan.out.blocks[j].parent_id) => j < k
    /\ \A j, k \in 1..Len(scan.out.blocks) :
         (j < k /\ scan.out.blocks[j].parent_id = scan.out.blocks[k].parent_id) =>
           \A x, y \in 1..Len(scan.out.blocks) :
             (Under(scan.tree, NumberAt(x), NumberAt(j))
                /\ Under(scan.tree, NumberAt(y), NumberAt(k))) => x < y

C29_Witness ==
  /\ Flattened
  /\ scan.out.blocks[1].has_children
  /\ scan.out.blocks[2].parent_id = ScopeId
  /\ \E k \in 3..Len(scan.out.blocks) : scan.out.blocks[k].parent_id = scan.out.blocks[1].id

-----------------------------------------------------------------------------
(* Claim about the key of a request shape.                                 *)

BuiltKeys == scan.op = "key"

(* C30: two request shapes that differ only in the order of the keys of    *)
(* their objects, at any depth, get the same key for the same command in   *)
(* the same time bucket.                                                   *)
C30_KeyIgnoresFieldOrder ==
  (BuiltKeys /\ SameUpToOrder(scan.requestShape, scan.reordered)) =>
    scan.key = scan.reorderedKey

C30_Witness ==
  /\ BuiltKeys
  /\ SameUpToOrder(scan.requestShape, scan.reordered)
  /\ scan.requestShape # scan.reordered
  /\ \E i \in 1..Len(scan.requestShape.fields) :
       /\ ~scan.requestShape.fields[i].value.leaf
       /\ scan.requestShape.fields[i].value
            # ValueOf(scan.reordered, scan.requestShape.fields[i].key)
  /\ scan.key = scan.reorderedKey

-----------------------------------------------------------------------------
(* Further properties of the store operations (SpecStore).                 *)

(* C31 as claimed: lookup is a non-mutating read: whatever the store holds *)
(* and whatever the arguments, the persisted map after a lookup is the map *)
(* before it.                                                              *)
C31_LookupReadOnly ==
  [][ IsCallOf("lookup") => file' = file ]_vars

(* C31 amended: lookup removes the entries older than the TTL from the     *)
(* persisted map and changes nothing else: every unexpired entry is kept   *)
(* as it was (hash, outcome, timestamp) and no entry is added.             *)
C31_LookupPrunesOnly ==
  [][ IsCallOf("lookup") => file' = Unexpired(file, now) ]_vars

C31_Witness ==
  /\ last.op = "lookup" /\ last.wasExpired /\ last.kind = "miss"
  /\ compositeKey(last.key, CommandName) \notin DOMAIN file
  /\ DOMAIN file # {}

-----------------------------------------------------------------------------
(* Properties of getBlocks (SpecRead).                                     *)

RECURSIVE Level(_, _)
(* The nesting level of block i under the scope: 1 for its children. *)
Level(tree, i) == IF tree.parent[i] = 0 THEN 1 ELSE 1 + Level(tree, tree.parent[i])

(* The blocks the service holds within the depth the read asked for. *)
Readable == {i \in DOMAIN scan.tree.parent : Level(scan.tree, i) <= scan.depth}

ReadBlocks == scan.op = "get_blocks"

LimitReached == scan.out.returned_blocks = scan.maxBlocks

(* The part of C32 that holds: the blocks returned, over all nesting       *)
(* levels, are as many as returned_blocks says and never more than         *)
(* maxBlocks; a read that stopped at the limit with nothing left reports   *)
(* truncated = false.                                                      *)
ReadBounded ==
  ReadBlocks =>
    /\ Len(scan.out.returned) = scan.out.returned_blocks
    /\ scan.out.returned_blocks <= scan.maxBlocks
    /\ (LimitReached /\ Cardinality(Readable) = scan.maxBlocks) => ~scan.out.truncated

(* C32: getBlocks never returns more than maxBlocks blocks, counted over   *)
(* all nesting levels; it reports truncated = true when the limit is       *)
(* reached while the service still has further blocks, and truncated =     *)
(* false when the limit is reached exactly and nothing further exists.     *)
C32_TruncationReported ==
  /\ ReadBounded
  /\ (ReadBlocks /\ LimitReached /\ Cardinality(Readable) > scan.maxBlocks)
       => scan.out.truncated

-----------------------------------------------------------------------------
(* lookup and reserve on the same entry (SpecStore).                       *)

(* C33: lookup and reserve classify an existing live entry identically:    *)
(* a hash that differs from the stored one gives conflict with the stored  *)
(* hash whatever the entry's state, the stored hash with a pending entry   *)
(* gives pending, the stored hash with a terminal entry gives replay of    *)
(* the stored outcome, and in these three cases the entry stays as it was. *)
(* With no live entry lookup returns miss and stores nothing, while        *)
(* reserve stores a pending entry with the given hash and returns execute. *)
C33_SameClassification ==
  [][ ( now' = now /\ last'.op \in {"lookup", "reserve"} ) =>
        LET live == Unexpired(file, now)
        IN IF CalledKey \in DOMAIN live
           THEN /\ last'.kind =
                     IF live[CalledKey].inputHash # last'.inputHash THEN "conflict"
                     ELSE IF live[CalledKey].responseJson = PENDING_RESPONSE_JSON
                     THEN "pending"
                     ELSE "replay"
                /\ last'.kind = "conflict" => last'.storedHash = live[CalledKey].inputHash
                /\ last'.kind = "replay" =>
                     last'.response = JsonParse(live[CalledKey].responseJson)
                /\ CalledKey \in DOMAIN file'
                /\ file'[CalledKey] = live[CalledKey]
           ELSE IF last'.op = "lookup"
           THEN last'.kind = "miss" /\ CalledKey \notin DOMAIN file'
           ELSE /\ last'.kind = "execute"
                /\ CalledKey \in DOMAIN file'
                /\ file'[CalledKey] = PendingEntry(last'.inputHash, now) ]_vars

C33_Witness ==
  /\ last.op = "reserve" /\ last.kind = "conflict" /\ last.was = "pending"
  /\ ~last.wasExpired
  /\ compositeKey(last.key, CommandName) \in DOMAIN file
  /\ file[compositeKey(last.key, CommandName)].inputHash = last.storedHash
  /\ last.storedHash # last.inputHash

-----------------------------------------------------------------------------
(* The hash of a stored entry (SpecLockOwn, where no entry reaches the TTL). *)

(* The keys whose entry a step keeps: there before and after it. *)
KeptKeys == DOMAIN file \cap DOMAIN file'

(* C34: once an entry exists for a composite key, no store operation       *)
(* changes its inputHash for as long as the entry exists: a request that   *)
(* presents a different hash for the key never takes the entry over and    *)
(* never overwrites it.                                                    *)
C34_HashNeverChanges ==
  [][ \A key \in KeptKeys : file'[key].inputHash = file[key].inputHash ]_vars

-----------------------------------------------------------------------------
(* The lock of a crashed holder (SpecCrash).                               *)

(* Process p is in the loop of acquireLock. *)
InAcquire(p) == lk[p].pc \in {"try", "stat", "unlink", "sleep"}

Acquired(p) == lk[p].pc \in {"load", "unlock", "done"} /\ lk[p].kind # "busy"

(* C35: a crashed lock holder does not block the store for ever.  A        *)
(* contender that finds the lock file older than the staleness threshold   *)
(* removes it, and a process that starts waiting after the crash acquires  *)
(* the lock before its wait budget ends: it never gets the busy error.     *)
C35_CrashedHolderCleared ==
  /\ [][ \A p \in Procs :
           ( /\ lk[p].pc = "stat" /\ lk'[p].pc # "stat"
             /\ lockFile # NoLock /\ now - lockFile.mtime > 30 )
           => lk'[p].pc = "unlink" ]_vars
  /\ [][ \A p \in Procs : lk[p].pc = "unlink" /\ lk'[p].pc # "unlink"
                            => lockFile' = NoLock ]_vars
  /\ [](\A p \in Procs : lk[p].kind # "busy")
  /\ \A p \in Procs : (SomeCrashed /\ InAcquire(p)) ~> Acquired(p)

C35_Witness ==
  \E p, q \in Procs :
    /\ lk[q].pc = "crashed"
    /\ lk[p].pc = "unlock" /\ lk[p].deadline > now
    /\ lockFile = [owner |-> p, mtime |-> now]
    /\ now > 30

-----------------------------------------------------------------------------
(* The lock outside withLock (SpecLock, SpecLockIo).                       *)

(* Process p is outside every store operation: it runs run(), recover(),   *)
(* an audit append or a polling sleep, or it has returned.                 *)
OutsideStore(p) == lk[p].pc \in {"idle", "done"}

(* C36: every store operation releases the lock on every exit path, so a   *)
(* process outside the store operations never holds the lock: the lock     *)
(* file, if there is one, was not created by it.                           *)
C36_LockReleasedOnExit ==
  \A p \in Procs : OutsideStore(p) => lockFile.owner # p

-----------------------------------------------------------------------------
(* The store file during a save (SpecSave).                                *)

(* Process p is about to rename its complete temporary file. *)
Renaming(p) == lk[p].pc = "rename" /\ lk[p].temp.state = "complete"

(* C37: the persisted store file always holds a complete map.  A save      *)
(* writes the whole map to a temporary file and renames it over the store  *)
(* file, so the store file changes only by such a rename, from the former  *)
(* complete contents to the new ones; wherever a process dies inside a     *)
(* store operation, and whoever reads meanwhile, the file is never one     *)
(* that was written in part.                                               *)
C37_FileAlwaysComplete ==
  /\ [](~IsTorn(file))
  /\ [][ file' # file =>
           \E p \in Procs : Renaming(p) /\ file' = lk[p].temp.data /\ ~IsTorn(file') ]_vars

C37_Witness ==
  \E p, q \in Procs :
    /\ lk[p].pc = "crashed" /\ lk[p].temp.state = "partial"
    /\ lk[q].pc = "unlock" /\ lk[q].kind = "execute"
    /\ DOMAIN file # {} /\ ~IsTorn(file)

-----------------------------------------------------------------------------
(* A completion that fails after a successful run (Spec).                  *)

(* p's call returned the response of its own run while complete failed. *)
DegradedReturn(p) ==
  /\ pc[p] = "done"
  /\ loc[p].result.state = "returned"
  /\ loc[p].idempotencyPersistDegraded
  /\ loc[p].runs = 1 /\ loc[p].recovers = 0

(* C38: when run succeeded and complete failed, the owner has not released *)
(* its reservation and the entry of its key stays PENDING (no entry gets   *)
(* old enough to be pruned here); while it is, no other call with the same *)
(* key and request invokes run, and such a call ends only with the         *)
(* retryable "already in progress" error.                                  *)
C38_DegradedBlocksRepeat ==
  /\ [](\A p \in Procs :
          DegradedReturn(p) => (~loc[p].released /\ LivePending(p)))
  /\ [][ \A p, q \in Procs :
           ( /\ q # p
             /\ DegradedReturn(p) /\ LivePending(p)
             /\ loc'[q].idempotencyKey = loc[p].idempotencyKey
             /\ loc'[q].requestHash = loc[p].requestHash ) =>
             /\ ~(pc[q] # "run" /\ pc'[q] = "run")
             /\ (pc[q] # "done" /\ pc'[q] = "done") =>
                   loc'[q].result =
                     [state |-> "threw", value |-> Null, error |-> InProgressError]
      ]_vars

-----------------------------------------------------------------------------
(* The TTL against the time bucket of the key (SpecStore).                 *)

(* The file holds an entry for the key, created in the bucket of now. *)
CreatedThisBucket(key) ==
  /\ key \in DOMAIN file
  /\ file[key].createdAt \div BUCKET_MS = now \div BUCKET_MS

(* C39: a reserve or a lookup made within the time bucket in which the     *)
(* entry of its key was created finds that entry: it returns neither miss  *)
(* (lookup) nor execute (reserve, an empty slot), and it leaves the entry  *)
(* as it was; a bucket (120 s) is shorter than the TTL (180 s).  The same  *)
(* holds of a call made at any time of that bucket, between clock reads.   *)
C39_BucketWithinTtl ==
  /\ [](BUCKET_MS <= PRUNE_TTL_MS)
  /\ [](\A k \in StoreKeys, h \in Hashes, t \in 0 .. MaxStoreTime :
          ( /\ compositeKey(k, CommandName) \in DOMAIN file
            /\ file[compositeKey(k, CommandName)].createdAt \div BUCKET_MS
                  = t \div BUCKET_MS ) =>
            /\ lookup(file, t, k, CommandName, h).kind # "miss"
            /\ reserve(file, t, k, CommandName, h).kind # "execute")
  /\ [][ \A k \in StoreKeys, h \in Hashes :
           ( /\ StoreLookup(k, h) \/ StoreReserve(k, h)
             /\ CreatedThisBucket(compositeKey(k, CommandName)) ) =>
             /\ last'.kind \notin {"miss", "execute"}
             /\ last'.was \in {"pending", "terminal"}
             /\ compositeKey(k, CommandName) \in DOMAIN file'
             /\ file'[compositeKey(k, CommandName)] = file[compositeKey(k, CommandName)]
      ]_vars

C39_Witness ==
  /\ last.op \in {"lookup", "reserve"}
  /\ last.kind = "replay"
  /\ CreatedThisBucket(compositeKey(last.key, CommandName))
  /\ file[compositeKey(last.key, CommandName)].createdAt < now

-----------------------------------------------------------------------------
(* sibling_index against the recorded sibling lists (SpecRaw).             *)

(* What flattenScopeBlocks returned to the latest scan. *)
Scanned == flattenScopeBlocks(scan.tree, ScopeId, scan.maxBlocks)

PositionOf(list, id) == CHOOSE k \in 1..Len(list) : list[k].id = id

(* The blocks with an id under the parent of the range, in the order of    *)
(* the listing, and the 1-based positions the range covers in them.        *)
RangeKnown == Scanned.siblingsByParent[RangeStart.selected.parent_id]

RangeFrom ==
  IF scan.inclusiveStart THEN PositionOf(RangeKnown, RangeStart.selected.id)
  ELSE PositionOf(RangeKnown, RangeStart.selected.id) + 1

RangeTo ==
  IF scan.inclusiveEnd THEN PositionOf(RangeKnown, RangeEnd.selected.id)
  ELSE PositionOf(RangeKnown, RangeEnd.selected.id) - 1

(* C40: every block f of a scan is the element at index f.sibling_index of *)
(* the sibling list recorded for f.parent_id, also when the listing holds  *)
(* entries without an id; and a replace-range request whose endpoints are  *)
(* siblings in order is accepted, deletes the blocks from its start to its *)
(* end (each included or not as asked), in sibling order, and inserts at   *)
(* the start of the parent or after the block just before the first one    *)
(* of the range.                                                           *)
C40_SiblingIndexIsPosition ==
  /\ (scan.op \in {"flatten", "replace_range"} /\ Scanned.kind = "ok") =>
       \A k \in 1..Len(Scanned.blocks) :
         LET f == Scanned.blocks[k]
             recorded == Scanned.siblingsByParent[f.parent_id]
         IN /\ f.sibling_index < Len(recorded)
            /\ recorded[f.sibling_index + 1] = f
  /\ ( /\ SameParent
       /\ PositionOf(RangeKnown, RangeStart.selected.id)
            <= PositionOf(RangeKnown, RangeEnd.selected.id) ) =>
       /\ scan.out.kind = "ok"
       /\ scan.out.delete_ids =
            [k \in 1..(RangeTo - RangeFrom + 1) |-> RangeKnown[RangeFrom + k - 1].id]
       /\ scan.out.insert_position =
            IF RangeFrom = 1
            THEN [type |-> "start", id |-> Null]
            ELSE [type |-> "after_block", id |-> RangeKnown[RangeFrom - 1].id]

====
